---- MODULE Spec2Model ----
(***************************************************************************)
(* Model of the LinkedIn Sales Navigator retriever:                        *)
(*   - RateLimiter (rate_limiter.py): persisted quota / backoff state      *)
(*   - LinkedInSalesNavigator.search_with_progressive_fallback and the     *)
(*     query parsing that feeds it (linkedin_sales_navigator.py)           *)
(*                                                                         *)
(* Time is counted in whole seconds since an epoch; the calendar date is   *)
(* the day number now \div 86400 and the hour of day (now \div 3600) % 24. *)
(* One call reads the clock once.                                          *)
(***************************************************************************)
EXTENDS Integers, Sequences, FiniteSets, TLC

VARIABLES
    state,               \* RateLimiter.state, the dict that save_state writes
    continuous_actions,  \* RateLimiter.continuous_actions (in memory only)
    file,                \* content of config_file: NoFile or a state document
    now,                 \* the clock, seconds
    ncalls,              \* number of state-changing calls of this process (bounded)
    ret,                 \* the last call, if it was can_search, can_view_profile
                         \* or record_search: its answer (its success argument)
    stopped_at,          \* history: the clock at the last emergency_stop() of
                         \* this process, -1 if there was none
    peer,                \* the state of a second RateLimiter constructed on
                         \* the same config_file, NoPeer if there is none
    pc,                  \* where search_with_progressive_fallback stands
    query,               \* LinkedInSalesNavigator.query
    filters,             \* the filters parse_query_filters made of the query
    search_type,         \* "people" or "companies"
    max_results,         \* the max_results of the call
    stub,                \* what the site answers at each ladder level
    simple_keywords,     \* the local simple_keywords, set by strategy 2
    fetchLog,            \* the driver.get calls of the call, in order
    results,             \* the list the call returns
    driver,              \* LinkedInSalesNavigator.driver: "None" or "Chrome"
    logged_in,           \* LinkedInSalesNavigator.logged_in
    returned,            \* what search() returned
    tavily,              \* what TavilySearch.search() did in the fallback
    answer               \* what get_search_results returned

rlvars ==
    <<state, continuous_actions, file, now, ncalls, ret, stopped_at, peer>>

sessvars == <<driver, logged_in, returned, tavily, answer>>

ctlvars == <<pc, query, filters, search_type, max_results, stub, simple_keywords,
            fetchLog, results, driver, logged_in, returned, tavily, answer>>

vars == <<state, continuous_actions, file, now, ncalls, ret, stopped_at, peer,
          pc, query, filters, search_type, max_results, stub, simple_keywords,
          fetchLog, results, driver, logged_in, returned, tavily, answer>>

-----------------------------------------------------------------------------
(* Bounds of the model *)

StartDay == 1
StartHour == 23
MaxCalls == 3

\* what earlier processes left in config_file: the number of successful and
\* then of failed searches they recorded, one hour before this process starts
PriorSuccesses == {13}
PriorFailures == {0, 2}

-----------------------------------------------------------------------------
(* RateLimiter.__init__: the limits *)

limits ==
    [ searches_per_day            |-> 15,
      profiles_per_day            |-> 30,
      connection_requests_per_day |-> 20,
      searches_per_hour           |-> 3,
      profiles_per_hour           |-> 10,
      min_delay_between_searches  |-> 45,
      max_delay_between_searches  |-> 180,
      min_delay_between_profiles  |-> 5,
      max_delay_between_profiles  |-> 30,
      backoff_multiplier          |-> 2,
      max_backoff                 |-> 3600,
      max_continuous_searches     |-> 5,
      break_duration_min          |-> 300,
      break_duration_max          |-> 900 ]

Min(a, b) == IF a <= b THEN a ELSE b
Max(a, b) == IF a >= b THEN a ELSE b

\* datetime.now().date() and datetime.now().hour of the clock value t
DateOf(t) == t \div 86400
HourOf(t) == (t \div 3600) % 24

\* the instants at which calls are made, as offsets from the start of the process
Offsets == {0, 45, 300, 3600, 86400}

\* the draws of random.uniform(break_duration_min, break_duration_max)
BreakDraws == {limits.break_duration_min, limits.break_duration_max}

NoFile == [exists |-> FALSE]
\* no second instance
NoPeer == [exists |-> FALSE]

NoRet == [op |-> "none", allowed |-> FALSE, reason |-> ""]

\* load_state, the default state (no readable document)
DefaultState(t) ==
    [ daily_searches       |-> 0,
      daily_profiles       |-> 0,
      daily_connections    |-> 0,
      hourly_searches      |-> 0,
      hourly_profiles      |-> 0,
      last_search_time     |-> 0,
      last_profile_time    |-> 0,
      last_reset_date      |-> DateOf(t),
      last_hour_reset      |-> HourOf(t),
      consecutive_failures |-> 0,
      total_failures_today |-> 0,
      last_break_time      |-> 0,
      continuous_searches  |-> 0,
      blocked_until        |-> 0 ]

\* documents that exist but cannot be loaded: open() fails, json.load() fails
Unreadable == [exists |-> TRUE, error |-> "io"]
NotJson == [exists |-> TRUE, error |-> "json"]

\* a JSON object without the daily_searches key
PartialDocs(t) ==
    { [hourly_searches |-> 2, last_reset_date |-> DateOf(t),
       blocked_until |-> t + 600],
      [consecutive_failures |-> 4] }

\* (variant) load_state whose handler returns what was read
OnLoadError_Keep(f, t) == f

\* load_state, the except branch: log, then fall through to the default state
OnLoadError(f, t) == DefaultState(t)

\* load_state: the document is returned when open, json.load and the lookup
\* of 'daily_searches' for the log line all succeed
load_state(f, t) ==
    IF f = NoFile THEN DefaultState(t)
    ELSE IF "error" \in DOMAIN f THEN OnLoadError(f, t)
    ELSE IF "daily_searches" \notin DOMAIN f THEN OnLoadError(f, t)
    ELSE f

\* save_state: the document after writing st; a failed write leaves it as it was
save_state(f, st, ok) == IF ok THEN st ELSE f

\* (variant) the write error leaves save_state and the method that called it
OnWriteError_Raise(r) ==
    [op |-> "raised", allowed |-> FALSE, reason |-> "Error saving rate limiter state"]

\* save_state's except clause: the error is logged, and the caller goes on to
\* its result r
OnWriteError(r) == r

\* what the caller of a method gets, after a save that succeeded or not
Completion(ok, r) == IF ok THEN r ELSE OnWriteError(r)

\* (variant) the new day clears consecutive_failures instead of decrementing it
DailyReset_ZeroFailures(st, t) ==
    IF DateOf(t) # st.last_reset_date
    THEN [st EXCEPT !.daily_searches = 0,
                    !.daily_profiles = 0,
                    !.daily_connections = 0,
                    !.total_failures_today = 0,
                    !.last_reset_date = DateOf(t),
                    !.consecutive_failures = 0]
    ELSE st

\* (variant) the new day is not written to last_reset_date
DailyReset_KeepDate(st, t) ==
    IF DateOf(t) # st.last_reset_date
    THEN [st EXCEPT !.daily_searches = 0,
                    !.daily_profiles = 0,
                    !.daily_connections = 0,
                    !.total_failures_today = 0,
                    !.consecutive_failures = Max(0, st.consecutive_failures - 1)]
    ELSE st

\* reset_if_needed, without its trailing save: the state and continuous_actions
DailyReset(st, t) ==
    IF DateOf(t) # st.last_reset_date
    THEN [st EXCEPT !.daily_searches = 0,
                    !.daily_profiles = 0,
                    !.daily_connections = 0,
                    !.total_failures_today = 0,
                    !.last_reset_date = DateOf(t),
                    !.consecutive_failures = Max(0, st.consecutive_failures - 1)]
    ELSE st

HourlyReset(st, t) ==
    IF HourOf(t) # st.last_hour_reset
    THEN [st EXCEPT !.hourly_searches = 0,
                    !.hourly_profiles = 0,
                    !.last_hour_reset = HourOf(t)]
    ELSE st

reset_if_needed(st, ca, t) ==
    [ state |-> HourlyReset(DailyReset(st, t), t),
      continuous_actions |-> IF DateOf(t) # st.last_reset_date THEN 0 ELSE ca ]

\* (variant) the minimum delay is not scaled by the failures
EffectiveMinDelay_NoBackoff(st) == limits.min_delay_between_searches

\* backoff-scaled minimum delay between searches (can_search, lines 165-170)
EffectiveMinDelay(st) ==
    IF st.consecutive_failures > 0
    THEN Min(limits.min_delay_between_searches
                 * (limits.backoff_multiplier ^ st.consecutive_failures),
             limits.max_backoff)
    ELSE limits.min_delay_between_searches

\* (variant) the block is honoured only while failures are outstanding
BlockedCheck_OnlyFailures(st, t) ==
    st.blocked_until > t /\ st.consecutive_failures >= 3

\* the check of can_search that refuses while blocked_until is in the future
BlockedCheck(st, t) == st.blocked_until > t

\* (variant) the limit is compared with > instead of >=
DailyLimitCheck_Strict(st) == st.daily_searches > limits.searches_per_day

\* the daily-limit check of can_search
DailyLimitCheck(st) == st.daily_searches >= limits.searches_per_day

\* (variant) the limit is compared with > instead of >=
HourlyLimitCheck_Strict(st) == st.hourly_searches > limits.searches_per_hour

\* the hourly-limit check of can_search
HourlyLimitCheck(st) == st.hourly_searches >= limits.searches_per_hour

\* (variant) the comparison with the required break is inverted
BreakCheck_Inverted(st, t, rb) ==
    /\ st.continuous_searches >= limits.max_continuous_searches
    /\ t - st.last_break_time > rb

\* the break check of can_search (lines 148-155): a break is still required
BreakCheck(st, t, rb) ==
    /\ st.continuous_searches >= limits.max_continuous_searches
    /\ t - st.last_break_time < rb

\* (variant) the ceiling is compared with > instead of >=
FailureCeilingCheck_Strict(st) == st.total_failures_today > 10

\* the last check of can_search: too many failures today
FailureCeilingCheck(st) == st.total_failures_today >= 10

\* can_search after its reset_if_needed: the answer and the state it leaves.
\* rb is the draw of required_break.
can_search(st, t, rb) ==
    IF BlockedCheck(st, t)
    THEN [allowed |-> FALSE,
          reason |-> "Temporarily blocked for " \o ToString(st.blocked_until - t)
                     \o " seconds due to failures",
          state |-> st]
    ELSE IF DailyLimitCheck(st)
    THEN [allowed |-> FALSE,
          reason |-> "Daily search limit reached ("
                     \o ToString(limits.searches_per_day) \o " searches)",
          state |-> st]
    ELSE IF HourlyLimitCheck(st)
    THEN [allowed |-> FALSE,
          reason |-> "Hourly search limit reached ("
                     \o ToString(limits.searches_per_hour) \o " searches)",
          state |-> st]
    ELSE IF BreakCheck(st, t, rb)
    THEN [allowed |-> FALSE,
          reason |-> "Break required. Please wait "
                     \o ToString(rb - (t - st.last_break_time)) \o " seconds",
          state |-> st]
    ELSE LET st1 == IF st.continuous_searches >= limits.max_continuous_searches
                    THEN [st EXCEPT !.continuous_searches = 0,
                                    !.last_break_time = t]
                    ELSE st
         IN  IF t - st1.last_search_time < EffectiveMinDelay(st1)
             THEN [allowed |-> FALSE,
                   reason |-> "Please wait "
                              \o ToString(EffectiveMinDelay(st1)
                                          - (t - st1.last_search_time))
                              \o " seconds before next search",
                   state |-> st1]
             ELSE IF FailureCeilingCheck(st1)
             THEN [allowed |-> FALSE,
                   reason |-> "Too many failures today. Please try again tomorrow",
                   state |-> st1]
             ELSE [allowed |-> TRUE, reason |-> "OK", state |-> st1]

\* can_view_profile after its reset_if_needed
can_view_profile(st, t) ==
    IF st.daily_profiles >= limits.profiles_per_day
    THEN [allowed |-> FALSE,
          reason |-> "Daily profile view limit reached ("
                     \o ToString(limits.profiles_per_day) \o " profiles)"]
    ELSE IF st.hourly_profiles >= limits.profiles_per_hour
    THEN [allowed |-> FALSE,
          reason |-> "Hourly profile view limit reached ("
                     \o ToString(limits.profiles_per_hour) \o " profiles)"]
    ELSE IF t - st.last_profile_time < limits.min_delay_between_profiles
    THEN [allowed |-> FALSE,
          reason |-> "Please wait "
                     \o ToString(limits.min_delay_between_profiles
                                 - (t - st.last_profile_time))
                     \o " seconds before next profile view"]
    ELSE [allowed |-> TRUE, reason |-> "OK"]

\* (variant) the exponent is off by one
BlockDuration_OffByOne(c) == Min(300 * (2 ^ (c - 2)), 3600)

\* the temporary block of record_search (lines 229-234)
BlockDuration(c) == Min(300 * (2 ^ (c - 3)), 3600)

BlockAfterFailure(st, t) ==
    IF st.consecutive_failures >= 3
    THEN [st EXCEPT !.blocked_until = t + BlockDuration(st.consecutive_failures)]
    ELSE st

\* (variant) a success also lifts the block
record_search_ClearsBlock(st, t, success) ==
    LET st1 == [st EXCEPT !.daily_searches = @ + 1,
                          !.hourly_searches = @ + 1,
                          !.last_search_time = t,
                          !.continuous_searches = @ + 1]
    IN  IF success
        THEN [st1 EXCEPT !.consecutive_failures = 0, !.blocked_until = 0]
        ELSE BlockAfterFailure(
                 [st1 EXCEPT !.consecutive_failures = @ + 1,
                             !.total_failures_today = @ + 1], t)

\* record_search, without its trailing save
record_search(st, t, success) ==
    LET st1 == [st EXCEPT !.daily_searches = @ + 1,
                          !.hourly_searches = @ + 1,
                          !.last_search_time = t,
                          !.continuous_searches = @ + 1]
    IN  IF success
        THEN [st1 EXCEPT !.consecutive_failures = 0]
        ELSE BlockAfterFailure(
                 [st1 EXCEPT !.consecutive_failures = @ + 1,
                             !.total_failures_today = @ + 1], t)

\* (variant) a failed view is handled like a failed search
record_profile_view_AsSearch(st, t, success) ==
    LET st1 == [st EXCEPT !.daily_profiles = @ + 1,
                          !.hourly_profiles = @ + 1,
                          !.last_profile_time = t]
    IN  IF success THEN st1
        ELSE [st1 EXCEPT !.total_failures_today = @ + 1,
                         !.consecutive_failures = @ + 1]

\* record_profile_view, without its trailing save
record_profile_view(st, t, success) ==
    LET st1 == [st EXCEPT !.daily_profiles = @ + 1,
                          !.hourly_profiles = @ + 1,
                          !.last_profile_time = t]
    IN  IF success THEN st1
        ELSE [st1 EXCEPT !.total_failures_today = @ + 1]

\* emergency_stop, without its trailing save
emergency_stop(st, t) ==
    [st EXCEPT !.blocked_until = t + 3600, !.consecutive_failures = 5]

\* reset_session, without its trailing save
reset_session(st, t) ==
    [st EXCEPT !.continuous_searches = 0, !.last_break_time = t]

\* the draws of random.gauss(mean, std_dev), and of random.uniform(-jitter_amount,
\* jitter_amount) as a multiple of jitter_amount
GaussDraws == {0, 10, 20, 50, 110, 180, 300}

JitterDraws == {-1, 0, 1}

ActionTypes == {"search", "profile"}

MinDelayOf(action_type) ==
    IF action_type = "search" THEN limits.min_delay_between_searches
    ELSE limits.min_delay_between_profiles

MaxDelayOf(action_type) ==
    IF action_type = "search" THEN limits.max_delay_between_searches
    ELSE limits.max_delay_between_profiles

\* (variant) the result is not floored at the minimum delay
get_delay_NoFloor(st, action_type, g, j) ==
    LET base_delay == Max(MinDelayOf(action_type), Min(MaxDelayOf(action_type), g))
        jitter     == j * ((base_delay * 2) \div 10)
        backed_off == IF st.consecutive_failures > 0
                      THEN Min(base_delay
                                 * (limits.backoff_multiplier ^ st.consecutive_failures),
                               limits.max_backoff)
                      ELSE base_delay
    IN  backed_off + jitter

\* get_delay, for the draw g of the normal sample and the draw j of the jitter;
\* jitter_range is 0.2
get_delay(st, action_type, g, j) ==
    LET base_delay == Max(MinDelayOf(action_type), Min(MaxDelayOf(action_type), g))
        jitter     == j * ((base_delay * 2) \div 10)
        backed_off == IF st.consecutive_failures > 0
                      THEN Min(base_delay
                                 * (limits.backoff_multiplier ^ st.consecutive_failures),
                               limits.max_backoff)
                      ELSE base_delay
    IN  Max(MinDelayOf(action_type), backed_off + jitter)

\* the document an earlier process saved after n record_search(success) calls
\* made at time t on the state st
RECURSIVE RecordSearches(_, _, _, _)
RecordSearches(st, t, n, success) ==
    IF n = 0 THEN st
    ELSE LET st1 == record_search(st, t, success)
         IN  \* the state the call leaves is computed before the next call
             IF st1.daily_searches >= 0
             THEN RecordSearches(st1, t, n - 1, success)
             ELSE st1

PriorDoc(t, k, j) ==
    RecordSearches(RecordSearches(DefaultState(t), t, k, TRUE), t, j, FALSE)

PriorDocs(t) == {PriorDoc(t, k, j) : k \in PriorSuccesses, j \in PriorFailures}

\* documents left by a process all of whose searches failed
FailureRuns == {9}

FailureDocs(t) == {PriorDoc(t, 0, j) : j \in FailureRuns}

RECURSIVE RecordProfileViews(_, _, _, _)
RecordProfileViews(st, t, n, success) ==
    IF n = 0 THEN st
    ELSE LET st1 == record_profile_view(st, t, success)
         IN  \* the state the call leaves is computed before the next call
             IF st1.daily_profiles >= 0
             THEN RecordProfileViews(st1, t, n - 1, success)
             ELSE st1

\* documents left by a process that made no search and all of whose profile
\* views failed
ProfileFailureDocs(t) ==
    {RecordProfileViews(DefaultState(t), t, j, FALSE) : j \in FailureRuns}

\* documents left by a process that called reset_session() and, 40 seconds
\* later, recorded so many successful searches
BreakRuns == {5}

BreakDocs(t) ==
    {RecordSearches(reset_session(DefaultState(t - 40), t - 40), t, k, TRUE) :
        k \in BreakRuns}

-----------------------------------------------------------------------------
(* The RateLimiter's operations as actions. ok: whether the write of         *)
(* save_state succeeds.                                                      *)

\* the clock when the process starts
StartTime == 86400 * StartDay + 3600 * StartHour

InitRL ==
    /\ now = StartTime
    /\ ncalls = 0
    /\ file \in {NoFile} \cup PriorDocs(now - 3600)
    /\ state = load_state(file, now)
    /\ continuous_actions = 0
    /\ ret = NoRet
    /\ stopped_at = -1
    /\ peer = NoPeer

\* a process that starts on a document of failed searches
InitRLF ==
    /\ now = StartTime
    /\ ncalls = 0
    /\ file \in FailureDocs(now - 3600)
    /\ state = load_state(file, now)
    /\ continuous_actions = 0
    /\ ret = NoRet
    /\ stopped_at = -1
    /\ peer = NoPeer

\* the numbers of failed searches in the documents on which the delays are
\* computed
DelayFailures == 0 .. 8

InitRLD ==
    /\ now = StartTime
    /\ ncalls = 0
    /\ file \in {PriorDoc(now - 3600, 1, j) : j \in DelayFailures}
    /\ state = load_state(file, now)
    /\ continuous_actions = 0
    /\ ret = NoRet
    /\ stopped_at = -1
    /\ peer = NoPeer

\* the state left by a caller that asks can_search at each of the instants ts
\* and records a search after each affirmative answer
RECURSIVE CheckedSearches(_, _, _)
CheckedSearches(st, ca, ts) ==
    IF ts = <<>> THEN st
    ELSE LET r == reset_if_needed(st, ca, Head(ts))
             a == can_search(r.state, Head(ts), limits.break_duration_min)
             st1 == IF a.allowed
                    THEN record_search(a.state, Head(ts), TRUE)
                    ELSE a.state
         IN  \* the state the call leaves is computed before the next call
             IF st1.daily_searches >= 0
             THEN CheckedSearches(st1, r.continuous_actions, Tail(ts))
             ELSE st1

\* three searches in each of four earlier hours
EarlierHours(t) ==
    [i \in 1..12 |-> t - 3600 * (13 - ((i - 1) \div 3)) + 600 * ((i - 1) % 3)]

\* documents of such a caller: twelve searches in earlier hours; those and
\* one more at the present instant
CheckedDocs(t) ==
    { CheckedSearches(DefaultState(t - 3600 * 14), 0, EarlierHours(t)),
      CheckedSearches(DefaultState(t - 3600 * 14), 0,
                      Append(EarlierHours(t), t)) }

InitRLS ==
    /\ now = StartTime
    /\ ncalls = 0
    /\ file \in CheckedDocs(now)
    /\ state = load_state(file, now)
    /\ continuous_actions = 0
    /\ ret = NoRet
    /\ stopped_at = -1
    /\ peer = NoPeer

\* the document two instances are constructed on
SharedDoc(t) ==
    CheckedSearches(DefaultState(t - 3600 * 14), 0, Append(EarlierHours(t), t))

\* two RateLimiter instances constructed on the same config_file
InitRL2 ==
    /\ now = StartTime
    /\ ncalls = 0
    /\ file = SharedDoc(now)
    /\ state = load_state(file, now)
    /\ peer = load_state(file, now)
    /\ continuous_actions = 0
    /\ ret = NoRet
    /\ stopped_at = -1

\* a process that goes on after nine failed profile views
InitRLP ==
    /\ now = StartTime
    /\ ncalls = 0
    /\ file \in ProfileFailureDocs(now - 3600)
    /\ state = load_state(file, now)
    /\ continuous_actions = 0
    /\ ret = NoRet
    /\ stopped_at = -1
    /\ peer = NoPeer

\* the document left by a run of searches recorded from the default state,
\* no break taken
FreshRunDocs(t) ==
    {RecordSearches(DefaultState(t), t, k, TRUE) : k \in BreakRuns}

\* a process that goes on 45 seconds after such a run
InitRLC ==
    /\ now = StartTime
    /\ ncalls = 0
    /\ file \in FreshRunDocs(now - 45)
    /\ state = load_state(file, now)
    /\ continuous_actions = 0
    /\ ret = NoRet
    /\ stopped_at = -1
    /\ peer = NoPeer

\* a process whose writes of config_file fail (the document of the earlier
\* process stays as it is)
InitRLW ==
    /\ now = StartTime
    /\ ncalls = 0
    /\ file \in {PriorDoc(now - 3600, n, 0) : n \in PriorSuccesses}
    /\ state = load_state(file, now)
    /\ continuous_actions = 0
    /\ ret = NoRet
    /\ stopped_at = -1
    /\ peer = NoPeer

\* a process that starts one minute after a run of searches that followed a
\* break
InitRLB ==
    /\ now = StartTime
    /\ ncalls = 0
    /\ file \in BreakDocs(now - 60)
    /\ state = load_state(file, now)
    /\ continuous_actions = 0
    /\ ret = NoRet
    /\ stopped_at = -1
    /\ peer = NoPeer

Tick(t) ==
    /\ t > now
    /\ now' = t
    /\ ret' = NoRet
    /\ UNCHANGED <<state, continuous_actions, file, ncalls>>
    /\ UNCHANGED ctlvars
    /\ UNCHANGED <<stopped_at, peer>>

CanSearch(rb, ok) ==
    LET r == reset_if_needed(state, continuous_actions, now)
        a == can_search(r.state, now, rb)
    IN  /\ state' = a.state
        /\ continuous_actions' = r.continuous_actions
        /\ file' = save_state(file, r.state, ok)
        /\ ret' = Completion(ok, [op |-> "can_search", allowed |-> a.allowed,
                                  reason |-> a.reason])
        /\ UNCHANGED <<now, ncalls>>
        /\ UNCHANGED ctlvars
        /\ UNCHANGED <<stopped_at, peer>>

CanViewProfile(ok) ==
    LET r == reset_if_needed(state, continuous_actions, now)
        a == can_view_profile(r.state, now)
    IN  /\ state' = r.state
        /\ continuous_actions' = r.continuous_actions
        /\ file' = save_state(file, r.state, ok)
        /\ ret' = Completion(ok, [op |-> "can_view_profile", allowed |-> a.allowed,
                                  reason |-> a.reason])
        /\ UNCHANGED <<now, ncalls>>
        /\ UNCHANGED ctlvars
        /\ UNCHANGED <<stopped_at, peer>>

RecordSearch(success, ok) ==
    /\ ncalls < MaxCalls
    /\ ncalls' = ncalls + 1
    /\ state' = record_search(state, now, success)
    /\ file' = save_state(file, state', ok)
    /\ ret' = Completion(ok, [op |-> "record_search", allowed |-> success,
                              reason |-> ""])
    /\ UNCHANGED <<continuous_actions, now>>
    /\ UNCHANGED ctlvars
    /\ UNCHANGED <<stopped_at, peer>>

RecordProfileView(success, ok) ==
    /\ ncalls < MaxCalls
    /\ ncalls' = ncalls + 1
    /\ state' = record_profile_view(state, now, success)
    /\ file' = save_state(file, state', ok)
    /\ ret' = Completion(ok, [op |-> "record_profile_view", allowed |-> success,
                              reason |-> ""])
    /\ UNCHANGED <<continuous_actions, now>>
    /\ UNCHANGED ctlvars
    /\ UNCHANGED <<stopped_at, peer>>

\* get_status: the rollover check and its save; the snapshot is not kept
GetStatus(ok) ==
    LET r == reset_if_needed(state, continuous_actions, now)
    IN  /\ state' = r.state
        /\ continuous_actions' = r.continuous_actions
        /\ file' = save_state(file, r.state, ok)
        /\ ret' = Completion(ok, NoRet)
        /\ UNCHANGED <<now, ncalls>>
        /\ UNCHANGED ctlvars
        /\ UNCHANGED <<stopped_at, peer>>

ResetSession(ok) ==
    /\ ncalls < MaxCalls
    /\ ncalls' = ncalls + 1
    /\ state' = reset_session(state, now)
    /\ continuous_actions' = 0
    /\ file' = save_state(file, state', ok)
    /\ ret' = Completion(ok, NoRet)
    /\ UNCHANGED <<now>>
    /\ UNCHANGED ctlvars
    /\ UNCHANGED <<stopped_at, peer>>

EmergencyStop(ok) ==
    /\ ncalls < MaxCalls
    /\ ncalls' = ncalls + 1
    /\ state' = emergency_stop(state, now)
    /\ file' = save_state(file, state', ok)
    /\ ret' = Completion(ok, NoRet)
    /\ UNCHANGED <<continuous_actions, now>>
    /\ UNCHANGED ctlvars
    /\ stopped_at' = now
    /\ UNCHANGED peer

\* get_delay: reads the state, changes nothing
GetDelay(action_type, g, j) ==
    /\ ret' = [op |-> "get_delay", allowed |-> FALSE, reason |-> "",
               action_type |-> action_type, gauss |-> g, jitter |-> j,
               delay |-> get_delay(state, action_type, g, j)]
    /\ UNCHANGED <<state, continuous_actions, file, now, ncalls, stopped_at,
                 peer>>
    /\ UNCHANGED ctlvars

\* the documents a constructor may find at config_file
Documents(t) ==
    {NoFile, Unreadable, NotJson} \cup PartialDocs(t) \cup PriorDocs(t - 3600)

\* __init__ over the document f found at config_file
Construct(f) ==
    /\ file' = f
    /\ state' = load_state(f, now)
    /\ continuous_actions' = 0
    /\ ret' = [op |-> "load_state", allowed |-> FALSE, reason |-> ""]
    /\ UNCHANGED <<now, ncalls>>
    /\ UNCHANGED ctlvars
    /\ UNCHANGED <<stopped_at, peer>>

NextLoad ==
    \/ \E d \in Offsets : Tick(StartTime + d)
    \/ \E s \in BOOLEAN : RecordSearch(s, TRUE)
    \/ \E s \in BOOLEAN : RecordProfileView(s, TRUE)
    \/ \E f \in Documents(now) \cup {file} : Construct(f)

\* record_search called right after a can_search that answered true
RecordCheckedSearch(success) ==
    /\ ret.op = "can_search"
    /\ ret.allowed
    /\ RecordSearch(success, TRUE)

\* a caller that records a search only after an affirmative can_search
NextRLS ==
    \/ \E d \in Offsets : Tick(StartTime + d)
    \/ \E rb \in BreakDraws : CanSearch(rb, TRUE)
    \/ CanViewProfile(TRUE)
    \/ \E s \in BOOLEAN : RecordCheckedSearch(s)
    \/ \E s \in BOOLEAN : RecordProfileView(s, TRUE)
    \/ GetStatus(TRUE)
    \/ ResetSession(TRUE)
    \/ EmergencyStop(TRUE)

\* can_search of the second instance
PeerCanSearch(rb) ==
    LET r == reset_if_needed(peer, 0, now)
        a == can_search(r.state, now, rb)
    IN  /\ peer' = a.state
        /\ file' = save_state(file, r.state, TRUE)
        /\ ret' = [op |-> "peer.can_search", allowed |-> a.allowed,
                   reason |-> a.reason]
        /\ UNCHANGED <<state, continuous_actions, now, ncalls, stopped_at>>
        /\ UNCHANGED ctlvars

\* record_search of the second instance, right after its can_search answered
\* true
PeerRecordCheckedSearch(success) ==
    /\ ret.op = "peer.can_search"
    /\ ret.allowed
    /\ ncalls < MaxCalls
    /\ ncalls' = ncalls + 1
    /\ peer' = record_search(peer, now, success)
    /\ file' = save_state(file, peer', TRUE)
    /\ ret' = [op |-> "peer.record_search", allowed |-> success, reason |-> ""]
    /\ UNCHANGED <<state, continuous_actions, now, stopped_at>>
    /\ UNCHANGED ctlvars

\* two instances whose calls are serialized, in any order
NextRL2 ==
    \/ \E d \in Offsets : Tick(StartTime + d)
    \/ \E rb \in BreakDraws : CanSearch(rb, TRUE)
    \/ \E s \in BOOLEAN : RecordCheckedSearch(s)
    \/ \E rb \in BreakDraws : PeerCanSearch(rb)
    \/ \E s \in BOOLEAN : PeerRecordCheckedSearch(s)

\* a caller none of whose searches fails
NextRLP ==
    \/ \E d \in Offsets : Tick(StartTime + d)
    \/ \E rb \in BreakDraws : CanSearch(rb, TRUE)
    \/ CanViewProfile(TRUE)
    \/ RecordSearch(TRUE, TRUE)
    \/ \E s \in BOOLEAN : RecordProfileView(s, TRUE)
    \/ GetStatus(TRUE)
    \/ ResetSession(TRUE)

NextDelay ==
    \E a \in ActionTypes, g \in GaussDraws, j \in JitterDraws : GetDelay(a, g, j)

NextRL ==
    \/ \E d \in Offsets : Tick(StartTime + d)
    \/ \E rb \in BreakDraws : CanSearch(rb, TRUE)
    \/ CanViewProfile(TRUE)
    \/ \E s \in BOOLEAN : RecordSearch(s, TRUE)
    \/ \E s \in BOOLEAN : RecordProfileView(s, TRUE)
    \/ GetStatus(TRUE)
    \/ ResetSession(TRUE)
    \/ EmergencyStop(TRUE)

\* the same operations when every write of config_file fails
NextRLW ==
    \/ \E d \in Offsets : Tick(StartTime + d)
    \/ \E rb \in BreakDraws : CanSearch(rb, FALSE)
    \/ CanViewProfile(FALSE)
    \/ \E s \in BOOLEAN : RecordSearch(s, FALSE)
    \/ \E s \in BOOLEAN : RecordProfileView(s, FALSE)
    \/ GetStatus(FALSE)
    \/ ResetSession(FALSE)
    \/ EmergencyStop(FALSE)

-----------------------------------------------------------------------------
(* Text. A text is a sequence of one-character strings; Str makes the string *)
(* of it. The texts of the model are ASCII, so the Ukrainian patterns and    *)
(* stop words of the tables, which no ASCII text contains, are left out.     *)

RECURSIVE Str(_)
Str(cs) == IF cs = <<>> THEN "" ELSE Head(cs) \o Str(Tail(cs))

\* str.lower()
UpperCase == <<"A", "B", "C", "D", "E", "F", "G", "H", "I", "J", "K", "L", "M",
               "N", "O", "P", "Q", "R", "S", "T", "U", "V", "W", "X", "Y", "Z">>
LowerCase == <<"a", "b", "c", "d", "e", "f", "g", "h", "i", "j", "k", "l", "m",
               "n", "o", "p", "q", "r", "s", "t", "u", "v", "w", "x", "y", "z">>
Digits == {"0", "1", "2", "3", "4", "5", "6", "7", "8", "9"}

LowerChar(c) ==
    IF \E i \in 1..26 : UpperCase[i] = c
    THEN LowerCase[CHOOSE i \in 1..26 : UpperCase[i] = c]
    ELSE c

Lower(cs) == [i \in 1..Len(cs) |-> LowerChar(cs[i])]

\* str.isalnum() of one character
IsAlnum(c) ==
    \/ \E i \in 1..26 : c = LowerCase[i] \/ c = UpperCase[i]
    \/ c \in Digits

\* pattern in text
Contains(text, pat) ==
    \E i \in 1..(Len(text) - Len(pat) + 1) : SubSeq(text, i, i + Len(pat) - 1) = pat

\* any(pattern in text for pattern in patterns)
AnyIn(patterns, text) == \E i \in 1..Len(patterns) : Contains(text, patterns[i])

\* str.split(): the words between runs of blanks
RECURSIVE SplitFrom(_, _, _)
SplitFrom(cs, i, word) ==
    IF i > Len(cs)
    THEN IF word = <<>> THEN <<>> ELSE <<word>>
    ELSE IF cs[i] = " "
         THEN IF word = <<>> THEN SplitFrom(cs, i + 1, <<>>)
              ELSE <<word>> \o SplitFrom(cs, i + 1, <<>>)
         ELSE SplitFrom(cs, i + 1, Append(word, cs[i]))

Split(cs) == SplitFrom(cs, 1, <<>>)

\* sep.join(strings)
RECURSIVE Join(_, _)
Join(sep, ss) ==
    IF ss = <<>> THEN ""
    ELSE IF Len(ss) = 1 THEN ss[1]
    ELSE ss[1] \o sep \o Join(sep, Tail(ss))

\* seq[:n]
Take(seq, n) == SubSeq(seq, 1, Min(n, Len(seq)))

\* the names of the rows of a pattern table that match the text
RECURSIVE Matches(_, _)
Matches(tbl, text) ==
    IF tbl = <<>> THEN <<>>
    ELSE IF AnyIn(Head(tbl).patterns, text)
         THEN <<Head(tbl).name>> \o Matches(Tail(tbl), text)
         ELSE Matches(Tail(tbl), text)

-----------------------------------------------------------------------------
(* LinkedInSalesNavigator: query parsing *)

role_patterns ==
    << [name |-> "javascript developer",
        patterns |-> <<<<"j", "a", "v", "a", "s", "c", "r", "i", "p", "t">>, <<"j", "s">>, <<"f", "r", "o", "n", "t", "e", "n", "d">>, <<"b", "a", "c", "k", "e", "n", "d">>, <<"f", "u", "l", "l", "s", "t", "a", "c", "k">>>>],
       [name |-> "cto",
        patterns |-> <<<<"c", "t", "o">>, <<"c", "h", "i", "e", "f", " ", "t", "e", "c", "h", "n", "o", "l", "o", "g", "y">>, <<"t", "e", "c", "h", " ", "l", "e", "a", "d">>>>],
       [name |-> "ceo",
        patterns |-> <<<<"c", "e", "o">>, <<"c", "h", "i", "e", "f", " ", "e", "x", "e", "c", "u", "t", "i", "v", "e">>, <<"f", "o", "u", "n", "d", "e", "r">>>>],
       [name |-> "developer",
        patterns |-> <<<<"d", "e", "v", "e", "l", "o", "p", "e", "r">>, <<"e", "n", "g", "i", "n", "e", "e", "r">>, <<"p", "r", "o", "g", "r", "a", "m", "m", "e", "r">>>>],
       [name |-> "manager",
        patterns |-> <<<<"m", "a", "n", "a", "g", "e", "r">>>>] >>

skill_patterns ==
    << [name |-> "JavaScript",
        patterns |-> <<<<"j", "a", "v", "a", "s", "c", "r", "i", "p", "t">>, <<"j", "s">>, <<"n", "o", "d", "e">>, <<"r", "e", "a", "c", "t">>, <<"v", "u", "e">>, <<"a", "n", "g", "u", "l", "a", "r">>>>],
       [name |-> "Python",
        patterns |-> <<<<"p", "y", "t", "h", "o", "n">>, <<"d", "j", "a", "n", "g", "o">>, <<"f", "l", "a", "s", "k">>>>],
       [name |-> "Java",
        patterns |-> <<<<"j", "a", "v", "a">>, <<"s", "p", "r", "i", "n", "g">>>>],
       [name |-> "TypeScript",
        patterns |-> <<<<"t", "y", "p", "e", "s", "c", "r", "i", "p", "t">>, <<"t", "s">>>>] >>

location_patterns ==
    << [name |-> "Valencia",
        patterns |-> <<<<"v", "a", "l", "e", "n", "c", "i", "a">>>>],
       [name |-> "Barcelona",
        patterns |-> <<<<"b", "a", "r", "c", "e", "l", "o", "n", "a">>>>],
       [name |-> "Madrid",
        patterns |-> <<<<"m", "a", "d", "r", "i", "d">>>>],
       [name |-> "Spain",
        patterns |-> <<<<"s", "p", "a", "i", "n">>>>] >>

size_100_terms == <<<<"1", "0", "0">>, <<"e", "m", "p", "l", "o", "y", "e", "e", "s">>>>
size_startup_terms == <<<<"s", "t", "a", "r", "t", "u", "p">>>>
funded_terms == <<<<"f", "u", "n", "d", "e", "d">>, <<"i", "n", "v", "e", "s", "t", "m", "e", "n", "t">>>>
decision_maker_terms == <<<<"d", "e", "c", "i", "s", "i", "o", "n", " ", "m", "a", "k", "e", "r">>, <<"c", "e", "o">>, <<"c", "t", "o">>, <<"f", "o", "u", "n", "d", "e", "r">>>>

stop_words ==
    {"the", "and", "or", "in", "on", "at", "to", "for", "of", "with", "by"}

\* the queries given to the retriever
Queries ==
    { <<"c", "t", "o", " ", "i", "n", " ", "m", "a", "d", "r", "i", "d">>,
      <<"j", "s", " ", "d", "e", "v">>,
      <<"h", "r", " ", "a", "i">>,
      <<"P", "y", "t", "h", "o", "n", " ", "R", "e", "a", "c", "t", " ", "f", "o", "u", "n", "d", "e", "r", ",", " ", "f", "u", "n", "d", "e", "d", " ", "s", "t", "a", "r", "t", "u", "p", ":", " ", "V", "a", "l", "e", "n", "c", "i", "a", " ", "B", "a", "r", "c", "e", "l", "o", "n", "a">>,
      <<"j", "a", "v", "a", "s", "c", "r", "i", "p", "t", " ", "d", "e", "v", "e", "l", "o", "p", "e", "r", " ", "m", "a", "n", "a", "g", "e", "r", " ", "c", "t", "o">>,
      <<"1", "0", "0", " ", "e", "m", "p", "l", "o", "y", "e", "e", "s", " ", "t", "h", "e", " ", "s", "p", "a", "i", "n">>,
      <<"i", "n", "v", "e", "s", "t", "m", "e", "n", "t", " ", "m", "a", "n", "a", "g", "e", "r", " ", "m", "a", "d", "r", "i", "d">> }

\* parse_intent
CompanyCriteria(raw) ==
    (IF AnyIn(size_100_terms, raw) THEN "size" :> "1-100"
     ELSE IF AnyIn(size_startup_terms, raw) THEN "size" :> "1-50"
     ELSE <<>>)
    @@ (IF AnyIn(funded_terms, raw) THEN "funding" :> "funded" ELSE <<>>)

parse_intent(q) ==
    LET raw == Lower(q)
    IN  [ roles            |-> Matches(role_patterns, raw),
          skills           |-> Matches(skill_patterns, raw),
          locations        |-> Matches(location_patterns, raw),
          company_criteria |-> CompanyCriteria(raw),
          seniority        |-> IF AnyIn(decision_maker_terms, raw)
                               THEN <<"owner", "partner", "cxo", "vp", "director">>
                               ELSE <<>>,
          keywords_raw     |-> raw ]

\* _extract_simple_keywords
CleanWord(word) == SelectSeq(word, IsAlnum)

RECURSIVE KeepKeywords(_)
KeepKeywords(words) ==
    IF words = <<>> THEN <<>>
    ELSE LET clean_word == CleanWord(Head(words))
         IN  IF Len(clean_word) > 2 /\ Str(clean_word) \notin stop_words
             THEN <<Str(clean_word)>> \o KeepKeywords(Tail(words))
             ELSE KeepKeywords(Tail(words))

extract_simple_keywords(q) == KeepKeywords(Split(Lower(q)))

Quoted(ss) == [i \in 1..Len(ss) |-> "\"" \o ss[i] \o "\""]

\* (variant) every matched role is put in the role clause
generate_optimized_keywords_AllRoles(intent) ==
    LET role_part ==
            IF intent.roles # <<>>
            THEN <<"(" \o Join(" OR ", Quoted(intent.roles)) \o ")">>
            ELSE <<>>
        skills_string == Join(" OR ", Take(intent.skills, 2))
        skill_part ==
            IF intent.skills # <<>>
            THEN IF role_part # <<>>
                 THEN <<"AND (" \o skills_string \o ")">>
                 ELSE <<skills_string>>
            ELSE <<>>
        keyword_parts == role_part \o skill_part
    IN  IF keyword_parts = <<>>
        THEN Join(" OR ", Take(extract_simple_keywords(intent.keywords_raw), 2))
        ELSE Join(" ", keyword_parts)

\* generate_optimized_keywords
generate_optimized_keywords(intent) ==
    LET role_part ==
            IF intent.roles # <<>>
            THEN <<"(" \o Join(" OR ", Quoted(Take(intent.roles, 2))) \o ")">>
            ELSE <<>>
        skills_string == Join(" OR ", Take(intent.skills, 2))
        skill_part ==
            IF intent.skills # <<>>
            THEN IF role_part # <<>>
                 THEN <<"AND (" \o skills_string \o ")">>
                 ELSE <<skills_string>>
            ELSE <<>>
        keyword_parts == role_part \o skill_part
    IN  IF keyword_parts = <<>>
        THEN Join(" OR ", Take(extract_simple_keywords(intent.keywords_raw), 2))
        ELSE Join(" ", keyword_parts)

\* build_native_filters
size_map == ("1-50" :> "B") @@ ("1-100" :> "C") @@ ("51-200" :> "D")
            @@ ("201-500" :> "E")

InSeq(x, seq) == \E i \in 1..Len(seq) : seq[i] = x

\* (variant) the location key is emitted whatever the locations
build_native_filters_EmptyGeo(intent) ==
    ("geoIncluded" :> Join(",", intent.locations))
    @@ (IF /\ "size" \in DOMAIN intent.company_criteria
           /\ intent.company_criteria["size"] \in DOMAIN size_map
        THEN "companySize" :> size_map[intent.company_criteria["size"]]
        ELSE <<>>)
    @@ (IF intent.seniority # <<>>
        THEN "seniorityIncluded" :> Join(",", intent.seniority) ELSE <<>>)
    @@ (IF InSeq("javascript developer", intent.roles)
           \/ InSeq("developer", intent.roles)
        THEN "functionIncluded" :> "engineering" ELSE <<>>)
    @@ ("currentJobTitle" :> "true")

build_native_filters(intent) ==
    (IF intent.locations # <<>>
     THEN "geoIncluded" :> Join(",", intent.locations) ELSE <<>>)
    @@ (IF /\ "size" \in DOMAIN intent.company_criteria
           /\ intent.company_criteria["size"] \in DOMAIN size_map
        THEN "companySize" :> size_map[intent.company_criteria["size"]]
        ELSE <<>>)
    @@ (IF intent.seniority # <<>>
        THEN "seniorityIncluded" :> Join(",", intent.seniority) ELSE <<>>)
    @@ (IF InSeq("javascript developer", intent.roles)
           \/ InSeq("developer", intent.roles)
        THEN "functionIncluded" :> "engineering" ELSE <<>>)
    @@ ("currentJobTitle" :> "true")

\* parse_query_filters
parse_query_filters(q) ==
    LET intent == parse_intent(q)
    IN  [ keywords       |-> generate_optimized_keywords(intent),
          native_filters |-> build_native_filters(intent),
          intent         |-> intent ]

\* the words of which the queries given to parse_query_filters are made
Words ==
    <<<<"j", "s">>,
      <<"c", "t", "o">>,
      <<"e", "n", "g", "i", "n", "e", "e", "r">>,
      <<"m", "a", "n", "a", "g", "e", "r">>,
      <<"p", "y", "t", "h", "o", "n">>,
      <<"s", "p", "r", "i", "n", "g">>,
      <<"m", "a", "d", "r", "i", "d">>,
      <<"s", "p", "a", "i", "n">>,
      <<"s", "t", "a", "r", "t", "u", "p">>,
      <<"1", "0", "0">>,
      <<"t", "h", "e">>,
      <<"h", "r">>,
      <<"s", "a", "l", "e", "s", ",">>>>

\* the words picked by S, in order, with one blank between them
RECURSIVE QueryFrom(_, _)
QueryFrom(S, i) ==
    IF i > Len(Words) THEN <<>>
    ELSE IF i \in S
         THEN LET rest == QueryFrom(S, i + 1)
              IN  IF rest = <<>> THEN Words[i] ELSE Words[i] \o <<" ">> \o rest
         ELSE QueryFrom(S, i + 1)

-----------------------------------------------------------------------------
(* LinkedInSalesNavigator.search_with_progressive_fallback *)

\* (variant) every group that applies is kept
create_or_broadening_query_AllGroups(intent) ==
    LET roles_part ==
            IF intent.roles # <<>>
            THEN <<"(" \o Join(" OR ", Quoted(Take(intent.roles, 3))) \o ")">>
            ELSE <<>>
        skills_part ==
            IF intent.skills # <<>>
            THEN <<"(" \o Join(" OR ", Take(intent.skills, 3)) \o ")">>
            ELSE <<>>
        seniority_part ==
            IF intent.seniority # <<>>
            THEN <<"(" \o Join(" OR ",
                       Take(<<"founder", "CEO", "CTO", "director", "manager">>, 3))
                   \o ")">>
            ELSE <<>>
        funding_part ==
            IF "funding" \in DOMAIN intent.company_criteria
            THEN <<"(" \o Join(" OR ", <<"startup", "funded", "investment">>)
                   \o ")">>
            ELSE <<>>
        or_parts == roles_part \o skills_part \o seniority_part \o funding_part
    IN  IF or_parts = <<>>
        THEN "developer OR engineer OR founder OR manager"
        ELSE Join(" OR ", or_parts)

\* _create_or_broadening_query
create_or_broadening_query(intent) ==
    LET roles_part ==
            IF intent.roles # <<>>
            THEN <<"(" \o Join(" OR ", Quoted(Take(intent.roles, 3))) \o ")">>
            ELSE <<>>
        skills_part ==
            IF intent.skills # <<>>
            THEN <<"(" \o Join(" OR ", Take(intent.skills, 3)) \o ")">>
            ELSE <<>>
        seniority_part ==
            IF intent.seniority # <<>>
            THEN <<"(" \o Join(" OR ",
                       Take(<<"founder", "CEO", "CTO", "director", "manager">>, 3))
                   \o ")">>
            ELSE <<>>
        funding_part ==
            IF "funding" \in DOMAIN intent.company_criteria
            THEN <<"(" \o Join(" OR ", <<"startup", "funded", "investment">>)
                   \o ")">>
            ELSE <<>>
        or_parts == roles_part \o skills_part \o seniority_part \o funding_part
    IN  IF or_parts = <<>>
        THEN "developer OR engineer OR founder OR manager"
        ELSE Join(" OR ", Take(or_parts, 3))

\* _create_or_broadening_filters
create_or_broadening_filters(intent) ==
    (IF intent.locations # <<>>
     THEN "geoIncluded" :> Join(",", intent.locations) ELSE <<>>)
    @@ ("currentJobTitle" :> "true")

\* what the site answers to one search: driver.get raises, find_elements
\* raises, or a page with so many result elements
PageKinds == {"fetch_error", "extract_error", "empty", "full"}

PageSize == 7

Elements(kind) == IF kind = "full" THEN PageSize ELSE 0

\* the max_results the caller asks for
MaxResultsInputs == {2}

\* (variant) every element of the page is extracted
extract_search_results_NoCap(level, kind, stype, max_count) ==
    IF kind = "extract_error" THEN <<>>
    ELSE [i \in 1..Elements(kind) |->
            IF stype = "people"
            THEN [name |-> "L" \o ToString(level) \o "#" \o ToString(i),
                  title |-> "N/A", company |-> "N/A", location |-> "N/A",
                  profile_url |-> "", source |-> "LinkedIn Sales Navigator"]
            ELSE [name |-> "L" \o ToString(level) \o "#" \o ToString(i),
                  industry |-> "N/A", size |-> "N/A", location |-> "N/A",
                  company_url |-> "", source |-> "LinkedIn Sales Navigator"]]

\* _extract_search_results on the page fetched at the level
extract_search_results(level, kind, stype, max_count) ==
    IF kind = "extract_error" THEN <<>>
    ELSE [i \in 1..Min(Elements(kind), max_count) |->
            IF stype = "people"
            THEN [name |-> "L" \o ToString(level) \o "#" \o ToString(i),
                  title |-> "N/A", company |-> "N/A", location |-> "N/A",
                  profile_url |-> "", source |-> "LinkedIn Sales Navigator"]
            ELSE [name |-> "L" \o ToString(level) \o "#" \o ToString(i),
                  industry |-> "N/A", size |-> "N/A", location |-> "N/A",
                  company_url |-> "", source |-> "LinkedIn Sales Navigator"]]

\* filters.get("native_filters", {}).get("geoIncluded", "")
GeoOf(flt) ==
    IF "geoIncluded" \in DOMAIN flt.native_filters
    THEN flt.native_filters["geoIncluded"] ELSE ""

\* the filters each strategy searches with
simplified_filters(flt, kws) ==
    [ keywords |-> Join(" OR ", Take(kws, 2)),
      native_filters |-> ("geoIncluded" :> GeoOf(flt))
                         @@ ("currentJobTitle" :> "true") ]

minimal_filters(flt, kws) ==
    [ keywords |-> IF kws # <<>> THEN kws[1]
                   ELSE "developer",
      native_filters |-> ("geoIncluded" :> GeoOf(flt)) ]

broadening_filters(intent) ==
    [ keywords |-> create_or_broadening_query(intent),
      native_filters |-> create_or_broadening_filters(intent) ]

ultra_broad_filters(locations) ==
    [ keywords |-> "developer OR manager OR founder",
      native_filters |-> ("geoIncluded" :> Join(",", locations))
                         @@ ("currentJobTitle" :> "true") ]

\* (variant) strategy 4 returns its records untagged
TagOrBroadening_NoFlag(rs, intent) == rs

\* the metadata strategies 4 and 5 put on every record
TagOrBroadening(rs, intent) ==
    [i \in 1..Len(rs) |->
        rs[i] @@ [ai_filter_needed |-> TRUE,
                  original_criteria |->
                      [roles |-> intent.roles,
                       locations |-> intent.locations,
                       company_criteria |-> intent.company_criteria,
                       seniority |-> intent.seniority,
                       skills |-> intent.skills]]]

\* (variant) strategy 5 does not name itself on its records
TagUltraBroad_NoStrategy(rs, intent) ==
    [i \in 1..Len(rs) |->
        rs[i] @@ [ai_filter_needed |-> TRUE,
                  original_criteria |-> intent]]

TagUltraBroad(rs, intent) ==
    [i \in 1..Len(rs) |->
        rs[i] @@ [ai_filter_needed |-> TRUE,
                  search_strategy |-> "ultra_broad",
                  original_criteria |-> intent]]

\* search_leads / search_companies after a successful login: parse the query
\* and enter the ladder. search() picks the search type from the query.
company_terms == <<<<"c", "o", "m", "p", "a", "n", "y">>, <<"c", "o", "m", "p", "a", "n", "i", "e", "s">>, <<"s", "t", "a", "r", "t", "u", "p">>>>

SearchTypeOf(q) ==
    IF AnyIn(company_terms, Lower(q)) THEN "companies" ELSE "people"

\* a value returned by search(), TavilySearch.search() or get_search_results:
\* a list, None, or an exception that leaves the call; Pending before the call
Pending == [kind |-> "pending", items |-> <<>>]
NoneValue == [kind |-> "none", items |-> <<>>]
Raised == [kind |-> "raised", items |-> <<>>]
ListOf(items) == [kind |-> "list", items |-> items]

\* what the site answers at the five levels
Stubs == [1..5 -> PageKinds]

\* parse_query_filters of each query, computed once
ParsedFilters == [q \in Queries |-> parse_query_filters(q)]

\* _extract_simple_keywords of each query's keywords_raw, computed once
SimpleKeywords ==
    [t \in {Lower(q) : q \in Queries} |-> extract_simple_keywords(t)]

InitCtl ==
    /\ pc = "Idle"
    /\ query = <<>>
    /\ filters = [keywords |-> "", native_filters |-> <<>>, intent |-> <<>>]
    /\ search_type = "people"
    /\ max_results = 0
    /\ stub = <<>>
    /\ simple_keywords = <<>>
    /\ fetchLog = <<>>
    /\ results = <<>>
    /\ driver = "None"
    /\ logged_in = FALSE
    /\ returned = Pending
    /\ tavily = Pending
    /\ answer = Pending

StartSearch ==
    /\ pc = "Idle"
    /\ \E q \in Queries, m \in MaxResultsInputs, sb \in Stubs :
          /\ query' = q
          /\ filters' = ParsedFilters[q]
          /\ search_type' = SearchTypeOf(q)
          /\ max_results' = m
          /\ stub' = sb
    /\ pc' = "L1"
    /\ simple_keywords' = <<>>
    /\ fetchLog' = <<>>
    /\ results' = <<>>
    /\ driver' = "Chrome"
    /\ logged_in' = TRUE
    /\ UNCHANGED <<returned, tavily, answer>>
    /\ UNCHANGED rlvars

\* one entry of the log of driver.get calls
Fetch(level, flt, max_count) ==
    [level |-> level, filters |-> flt, search_type |-> search_type,
     max_count |-> max_count, page |-> stub[level], at |-> now]

\* one strategy's try block: the fetch, the sleep after it and the extraction.
\* A fetch error leaves the try block before the sleep.
AttemptResults(level, max_count) ==
    IF stub[level] = "fetch_error" THEN <<>>
    ELSE extract_search_results(level, stub[level], search_type, max_count)

AttemptTime(level, pause) == IF stub[level] = "fetch_error" THEN 0 ELSE pause

\* where the code goes on after the try block of a level
NextLevel(level) ==
    CASE level = 1 -> "L2"
      [] level = 2 -> "L3"
      [] level = 3 -> "L4"
      [] level = 4 -> "L5"
      [] level = 5 -> "Exhausted"

\* (variant) the error leaves the call
OnError_Raise(level) == "Raised"

\* the except clause of a level: the error is logged and the code goes on
OnError(level) == NextLevel(level)

\* (variant) a non-empty result does not end the call
AfterAttempt_NoReturn(level, rs) ==
    IF stub[level] = "fetch_error" THEN OnError(level) ELSE NextLevel(level)

\* "if len(results) > 0: return results", else fall through to the next level
AfterAttempt(level, rs) ==
    IF stub[level] = "fetch_error" THEN OnError(level)
    ELSE IF Len(rs) > 0 THEN "Success"
    ELSE NextLevel(level)

\* the sleep between two strategies
InterLevelDelay(nextpc) == IF nextpc \in {"L2", "L3", "L4", "L5"} THEN 15 ELSE 0

\* "if simple_keywords:" of strategy 2
HasSimpleKeywords(kws) == kws # <<>>

\* (variant) strategy 5 is attempted whatever the locations
HasLocations_Always(locations) == TRUE

\* "if locations:" of strategy 5
HasLocations(locations) == locations # <<>>

\* Strategy 1: full optimized search
Strategy1 ==
    /\ pc = "L1"
    /\ LET rs == AttemptResults(1, max_results)
           to == AfterAttempt(1, rs)
       IN  /\ fetchLog' = Append(fetchLog,
                   Fetch(1, [keywords |-> filters.keywords,
                             native_filters |-> filters.native_filters],
                         max_results))
           /\ results' = IF to = "Success" THEN rs ELSE results
           /\ pc' = to
           /\ now' = now + AttemptTime(1, 5) + InterLevelDelay(to)
    /\ UNCHANGED <<query, filters, search_type, max_results, stub, simple_keywords>>
    /\ UNCHANGED <<state, continuous_actions, file, ncalls, ret, stopped_at,
                 peer>>
    /\ UNCHANGED sessvars

\* Strategy 2: simplified keywords search
Strategy2 ==
    /\ pc = "L2"
    /\ simple_keywords' = SimpleKeywords[filters.intent.keywords_raw]
    /\ LET rs == AttemptResults(2, max_results)
           to == AfterAttempt(2, rs)
       IN  IF HasSimpleKeywords(simple_keywords')
           THEN /\ fetchLog' = Append(fetchLog,
                        Fetch(2, simplified_filters(filters, simple_keywords'),
                              max_results))
                /\ results' = IF to = "Success" THEN rs ELSE results
                /\ pc' = to
                /\ now' = now + AttemptTime(2, 10) + InterLevelDelay(to)
           ELSE /\ pc' = NextLevel(2)
                /\ now' = now + InterLevelDelay(NextLevel(2))
                /\ UNCHANGED <<fetchLog, results>>
    /\ UNCHANGED <<query, filters, search_type, max_results, stub>>
    /\ UNCHANGED <<state, continuous_actions, file, ncalls, ret, stopped_at,
                 peer>>
    /\ UNCHANGED sessvars

\* Strategy 3: minimal search
Strategy3 ==
    /\ pc = "L3"
    /\ LET rs == AttemptResults(3, max_results)
           to == AfterAttempt(3, rs)
       IN  /\ fetchLog' = Append(fetchLog,
                   Fetch(3, minimal_filters(filters, simple_keywords),
                         max_results))
           /\ results' = IF to = "Success" THEN rs ELSE results
           /\ pc' = to
           /\ now' = now + AttemptTime(3, 5) + InterLevelDelay(to)
    /\ UNCHANGED <<query, filters, search_type, max_results, stub, simple_keywords>>
    /\ UNCHANGED <<state, continuous_actions, file, ncalls, ret, stopped_at,
                 peer>>
    /\ UNCHANGED sessvars

\* Strategy 4: OR-based broadening
Strategy4 ==
    /\ pc = "L4"
    /\ LET intent == filters.intent
           rs == AttemptResults(4, max_results * 2)
           to == AfterAttempt(4, rs)
       IN  /\ fetchLog' = Append(fetchLog,
                   Fetch(4, broadening_filters(intent), max_results * 2))
           /\ results' = IF to = "Success" THEN TagOrBroadening(rs, intent)
                         ELSE results
           /\ pc' = to
           /\ now' = now + AttemptTime(4, 5) + InterLevelDelay(to)
    /\ UNCHANGED <<query, filters, search_type, max_results, stub, simple_keywords>>
    /\ UNCHANGED <<state, continuous_actions, file, ncalls, ret, stopped_at,
                 peer>>
    /\ UNCHANGED sessvars

\* Strategy 5: ultra-broad location-only search, then the final "return []"
Strategy5 ==
    /\ pc = "L5"
    /\ LET intent == filters.intent
           locations == intent.locations
           rs == AttemptResults(5, max_results * 3)
           to == AfterAttempt(5, rs)
       IN  IF HasLocations(locations)
           THEN /\ fetchLog' = Append(fetchLog,
                        Fetch(5, ultra_broad_filters(locations), max_results * 3))
                /\ results' = IF to = "Success" THEN TagUltraBroad(rs, intent)
                              ELSE <<>>
                /\ pc' = to
                /\ now' = now + AttemptTime(5, 10)
           ELSE /\ results' = <<>>
                /\ pc' = NextLevel(5)
                /\ UNCHANGED <<fetchLog, now>>
    /\ UNCHANGED <<query, filters, search_type, max_results, stub, simple_keywords>>
    /\ UNCHANGED <<state, continuous_actions, file, ncalls, ret, stopped_at,
                 peer>>
    /\ UNCHANGED sessvars

\* search(): one formatted result (the lines of the AI-filter note that print
\* the original criteria are left out of the body)
FormatResult(r, stype) ==
    [href |-> IF stype = "companies" THEN r.company_url ELSE r.profile_url,
     body |-> (IF stype = "companies"
               THEN "Company: " \o r.name \o "\nIndustry: " \o r.industry
                    \o "\nSize: " \o r.size \o "\nLocation: " \o r.location \o "\n"
               ELSE "Name: " \o r.name \o "\nTitle: " \o r.title
                    \o "\nCompany: " \o r.company \o "\nLocation: " \o r.location
                    \o "\n")
              \o (IF "ai_filter_needed" \in DOMAIN r /\ r.ai_filter_needed
                  THEN "\n[AI FILTER NEEDED]\n" ELSE "")]

\* search(): the loop over raw_results; iterating over None raises TypeError
format_results(raw, stype) ==
    IF raw.kind = "none" THEN Raised
    ELSE ListOf([i \in 1..Len(raw.items) |-> FormatResult(raw.items[i], stype)])

\* (variant) the error is answered with None
OnSearchError_ReturnNone(e) == NoneValue

\* search(): "except Exception as e: ... return []"
OnSearchError(e) == ListOf(<<>>)

\* what search() returns for the raw_results of search_leads / search_companies
search_returns(raw, stype) ==
    LET f == format_results(raw, stype)
    IN  IF f.kind = "raised" THEN OnSearchError(f) ELSE f

\* search(): the finally clause; driver.quit() may fail, the fields are reset
\* all the same, but only if there is a driver
release(d, li, quit_ok) ==
    IF d # "None" THEN [driver |-> "None", logged_in |-> FALSE]
    ELSE [driver |-> d, logged_in |-> li]

\* how login() fails: init_browser leaves driver None, or the site refuses
LoginFailures == {"no_browser", "refused"}

\* search_leads / search_companies when login() fails: they return None
LoginFails ==
    /\ pc = "Idle"
    /\ \E q \in Queries, m \in MaxResultsInputs, how \in LoginFailures :
          /\ query' = q
          /\ search_type' = SearchTypeOf(q)
          /\ max_results' = m
          /\ driver' = IF how = "no_browser" THEN "None" ELSE "Chrome"
    /\ logged_in' = FALSE
    /\ pc' = "NoLogin"
    /\ UNCHANGED <<filters, stub, simple_keywords, fetchLog, results,
                   returned, tavily, answer>>
    /\ UNCHANGED rlvars

\* search() called while the event loop is running: run_until_complete raises
\* RuntimeError before login() is reached; except and finally follow
LoopRunning ==
    /\ pc = "Idle"
    /\ \E q \in Queries, m \in MaxResultsInputs :
          /\ query' = q
          /\ search_type' = SearchTypeOf(q)
          /\ max_results' = m
    /\ returned' = OnSearchError(Raised)
    /\ driver' = release(driver, logged_in, TRUE).driver
    /\ logged_in' = release(driver, logged_in, TRUE).logged_in
    /\ pc' = "Returned"
    /\ UNCHANGED <<filters, stub, simple_keywords, fetchLog, results,
                   tavily, answer>>
    /\ UNCHANGED rlvars

\* search() after search_leads / search_companies returned: the formatting,
\* the except clause and the finally clause
Return ==
    /\ pc \in {"Success", "Exhausted", "NoLogin"}
    /\ \E quit_ok \in BOOLEAN :
          /\ driver' = release(driver, logged_in, quit_ok).driver
          /\ logged_in' = release(driver, logged_in, quit_ok).logged_in
    /\ returned' = search_returns(IF pc = "NoLogin" THEN NoneValue
                                  ELSE ListOf(results), search_type)
    /\ pc' = "Returned"
    /\ UNCHANGED <<query, filters, search_type, max_results, stub,
                   simple_keywords, fetchLog, results, tavily, answer>>
    /\ UNCHANGED rlvars

\* what TavilySearch.search() does when asked
TavilyHit(i) == [href |-> "https://example.com/" \o ToString(i), body |-> "text"]

TavilyOutcomes ==
    {ListOf(<<TavilyHit(1), TavilyHit(2)>>), ListOf(<<>>), NoneValue, Raised}

\* get_search_results: the metadata put on the fallback results (the query
\* is ASCII, so original_language is "english")
TagFallback(items) ==
    [i \in 1..Len(items) |->
        [href |-> items[i].href, body |-> items[i].body,
         source |-> "Tavily (LinkedIn fallback)",
         fallback_reason |-> "LinkedIn returned no results"]]

\* (variant) the error of the fallback leaves get_search_results
OnTavilyError_Raise(e) == Raised

\* get_search_results: "except Exception as e: ... results = []"
OnTavilyError(e) == ListOf(<<>>)

\* get_search_results for a LinkedIn retriever whose search() returned r
get_search_results(r, tv) ==
    IF r.kind = "none" \/ (r.kind = "list" /\ Len(r.items) = 0)
    THEN IF tv.kind = "raised" THEN OnTavilyError(tv)
         ELSE IF tv.kind = "list" THEN ListOf(TagFallback(tv.items))
         ELSE tv
    ELSE r

GetSearchResults ==
    /\ pc = "Returned"
    /\ \E tv \in TavilyOutcomes :
          /\ tavily' = (IF returned.kind = "list" /\ Len(returned.items) > 0
                        THEN Pending ELSE tv)
          /\ answer' = get_search_results(returned, tv)
    /\ pc' = "Answered"
    /\ UNCHANGED <<query, filters, search_type, max_results, stub,
                   simple_keywords, fetchLog, results, driver, logged_in,
                   returned>>
    /\ UNCHANGED rlvars

NextCtl ==
    \/ StartSearch
    \/ Strategy1
    \/ Strategy2
    \/ Strategy3
    \/ Strategy4
    \/ Strategy5

\* the process starts on what an earlier process left in config_file, if any
Init == InitRL /\ InitCtl

SpecCtl == Init /\ [][NextCtl]_vars

SpecRL == Init /\ [][NextRL]_vars

\* get_search_results with the LinkedIn retriever: search(), then the fallback
NextSearch ==
    \/ NextCtl
    \/ LoginFails
    \/ LoopRunning
    \/ Return
    \/ GetSearchResults

SpecSearch == Init /\ [][NextSearch]_vars

InitF == InitRLF /\ InitCtl

SpecRLF == InitF /\ [][NextRL]_vars

InitD == InitRLD /\ InitCtl

SpecDelay == InitD /\ [][NextDelay]_vars

\* parse_query_filters on a query made of some of the words
InitP ==
    /\ InitRL
    /\ file = NoFile
    /\ pc = "Idle"
    /\ \E S \in SUBSET (1..Len(Words)) : query = QueryFrom(S, 1)
    /\ filters = [keywords |-> "", native_filters |-> <<>>, intent |-> <<>>]
    /\ search_type = "people"
    /\ max_results = 0
    /\ stub = <<>>
    /\ simple_keywords = <<>>
    /\ fetchLog = <<>>
    /\ results = <<>>
    /\ driver = "None"
    /\ logged_in = FALSE
    /\ returned = Pending
    /\ tavily = Pending
    /\ answer = Pending

ParseQueryFilters ==
    /\ pc = "Idle"
    /\ filters' = parse_query_filters(query)
    /\ pc' = "Parsed"
    /\ UNCHANGED sessvars
    /\ UNCHANGED <<query, search_type, max_results, stub, simple_keywords,
                   fetchLog, results>>
    /\ UNCHANGED rlvars

SpecParse == InitP /\ [][ParseQueryFilters]_vars

SpecLoad == Init /\ [][NextLoad]_vars

InitS == InitRLS /\ InitCtl

SpecRLS == InitS /\ [][NextRLS]_vars

Init2 == InitRL2 /\ InitCtl

SpecRL2 == Init2 /\ [][NextRL2]_vars

InitPV == InitRLP /\ InitCtl

SpecRLP == InitPV /\ [][NextRLP]_vars

InitC == InitRLC /\ InitCtl

SpecRLC == InitC /\ [][NextRL]_vars

InitW == InitRLW /\ InitCtl

SpecRLW == InitW /\ [][NextRLW]_vars

InitB == InitRLB /\ InitCtl

SpecRLB == InitB /\ [][NextRL]_vars

-----------------------------------------------------------------------------
(* Properties of search_with_progressive_fallback, under SpecCtl *)

Terminal == {"Success", "Exhausted"}

Last(seq) == seq[Len(seq)]

\* the levels fetched so far, in order
Levels(log) == [i \in 1..Len(log) |-> log[i].level]

\* a step that performs a fetch
FetchStep == fetchLog' # fetchLog /\ fetchLog' # <<>>

\* the answer can_search() would give now, for the draw rb of required_break
CanSearchNow(rb) ==
    can_search(reset_if_needed(state, continuous_actions, now).state, now, rb)

\* the site returns empty pages at every level
AlwaysEmpty == pc # "Idle" /\ \A k \in 1..5 : stub[k] = "empty"

\* the site returns a non-empty page at level k only
OnlyAt(k) ==
    /\ pc # "Idle"
    /\ stub[k] = "full"
    /\ \A j \in (1..5) \ {k} : stub[j] = "empty"

\* level k is one the call attempts for the query: level 2 needs a simple
\* keyword in the raw text, level 5 a detected location
Attempted(k) ==
    CASE k = 2 -> SimpleKeywords[filters.intent.keywords_raw] # <<>>
      [] k = 5 -> filters.intent.locations # <<>>
      [] OTHER -> TRUE

AttemptedUpTo(k) == SelectSeq([i \in 1..k |-> i], Attempted)

\* the record carries ai_filter_needed = true
HasAiTag(r) == "ai_filter_needed" \in DOMAIN r /\ r.ai_filter_needed = TRUE

\* the records are the ones extracted from the page of level k
FromLevel(rs, k) ==
    /\ Len(rs) > 0
    /\ \A i \in 1..Len(rs) :
          rs[i].name = "L" \o ToString(k) \o "#" \o ToString(i)

\* C1 (as claimed): the first fetch of a call is made only when can_search()
\* answers true; when it answers false no level is fetched.
C1_FetchOnlyWhenAllowed ==
    [][(fetchLog = <<>> /\ fetchLog' # <<>>)
          => \E rb \in BreakDraws : CanSearchNow(rb).allowed]_vars

\* C2 (as claimed): every ladder attempt is reported to the RateLimiter through
\* record_search, so each step that fetches also counts one more search.
C2_AttemptsRecorded ==
    [][FetchStep => state'.daily_searches = state.daily_searches + 1]_vars

\* C3 (as claimed): with a site that always returns empty the call fetches
\* levels 1, 2, 3, 4, 5 in that order, once each, and returns the empty list.
C3_AllFiveLevels ==
    (pc \in Terminal /\ AlwaysEmpty)
        => /\ pc = "Exhausted"
           /\ results = <<>>
           /\ Levels(fetchLog) = <<1, 2, 3, 4, 5>>

\* C3 (amended): with a site that always returns empty the call fetches level
\* 1, level 2 only if the raw text has a simple keyword, levels 3 and 4, and
\* level 5 only if a location was detected, in ascending order and once each,
\* and returns the empty list.
C3_AttemptedLevels ==
    (pc \in Terminal /\ AlwaysEmpty)
        => /\ pc = "Exhausted"
           /\ results = <<>>
           /\ Levels(fetchLog) = AttemptedUpTo(5)

C3_Witness ==
    pc = "Exhausted" /\ AlwaysEmpty /\ Levels(fetchLog) = <<1, 3, 4>>

\* C4 (as claimed): with a site that returns non-empty only at level k the
\* call fetches levels 1..k in order and returns level k's records, which
\* carry ai_filter_needed = true iff k is 4 or 5.
C4_LevelsOneToK ==
    \A k \in 1..5 :
        (pc \in Terminal /\ OnlyAt(k))
            => /\ pc = "Success"
               /\ Levels(fetchLog) = [i \in 1..k |-> i]
               /\ FromLevel(results, k)
               /\ \A i \in 1..Len(results) : HasAiTag(results[i]) <=> k \in {4, 5}

\* C4 (amended): with a site that returns non-empty only at level k, if level
\* k is attempted for the query the call fetches the attempted levels among
\* 1..k in ascending order and returns level k's records, which carry
\* ai_filter_needed = true iff k is 4 or 5; if level k is not attempted the
\* call returns the empty list.
C4_AttemptedLevelsToK ==
    \A k \in 1..5 :
        (pc \in Terminal /\ OnlyAt(k))
            => IF Attempted(k)
               THEN /\ pc = "Success"
                    /\ Levels(fetchLog) = AttemptedUpTo(k)
                    /\ FromLevel(results, k)
                    /\ \A i \in 1..Len(results) :
                          HasAiTag(results[i]) <=> k \in {4, 5}
               ELSE /\ pc = "Exhausted"
                    /\ results = <<>>

C4_Witness ==
    pc = "Success" /\ OnlyAt(4) /\ Len(fetchLog) = 4 /\ HasAiTag(results[1])

\* C5: once a level's page is non-empty the call returns that level's records
\* at once: no level is fetched after a non-empty one, Success carries the
\* records of the last level fetched, Exhausted carries the empty list, and
\* in Success and Exhausted no strategy can run.
C5_ReturnsAtFirstNonEmpty ==
    /\ \A i \in 1..(Len(fetchLog) - 1) : fetchLog[i].page # "full"
    /\ (fetchLog # <<>> /\ Last(fetchLog).page = "full")
          => pc = "Success" /\ FromLevel(results, Last(fetchLog).level)
    /\ pc = "Success" => fetchLog # <<>> /\ Last(fetchLog).page = "full"
    /\ pc = "Exhausted" => results = <<>>
    /\ pc \in Terminal
          => ~ENABLED (Strategy1 \/ Strategy2 \/ Strategy3 \/ Strategy4 \/ Strategy5)

C5_Witness ==
    pc = "Success" /\ Levels(fetchLog) = <<1, 2>> /\ stub[3] = "full"

\* C6: a fetch error or an extract error at a level has the effect of an empty
\* page: the call goes on to the next level (after level 5: returns the empty
\* list) with nothing returned, and the call never raises.
C6_ErrorsTreatedAsEmpty ==
    /\ [](pc # "Raised")
    /\ []((pc \in Terminal
            /\ \A k \in 1..5 : stub[k] \in {"fetch_error", "extract_error"})
          => pc = "Exhausted" /\ results = <<>>)
    /\ [][(FetchStep /\ Last(fetchLog').page \in {"fetch_error", "extract_error", "empty"})
            => /\ pc' = <<"L2", "L3", "L4", "L5", "Exhausted">>[Last(fetchLog').level]
               /\ results' = <<>>]_vars

C6_Witness ==
    /\ pc = "Exhausted"
    /\ \A k \in 1..5 : stub[k] = "fetch_error"
    /\ Levels(fetchLog) = <<1, 2, 3, 4, 5>>

-----------------------------------------------------------------------------
(* Properties of the RateLimiter, under SpecRL *)

DailyReason ==
    "Daily search limit reached (" \o ToString(limits.searches_per_day)
    \o " searches)"

\* C7: once daily_searches has reached searches_per_day, can_search() answers
\* false, with the daily-limit reason unless a block is in force; the counter
\* goes down only when the stored date changes; and the daily-limit reason is
\* never given while daily_searches is below the limit.
C7_DailyLimit ==
    /\ [](ret.op = "can_search"
            => /\ state.daily_searches >= limits.searches_per_day
                    => /\ ~ret.allowed
                       /\ state.blocked_until <= now => ret.reason = DailyReason
               /\ ret.reason = DailyReason
                    => state.daily_searches >= limits.searches_per_day)
    /\ [][state'.daily_searches < state.daily_searches
            => state'.last_reset_date # state.last_reset_date]_vars

C7_Witness ==
    /\ ret.op = "can_search"
    /\ ret.reason = DailyReason
    /\ state.daily_searches = limits.searches_per_day
    /\ state.total_failures_today = 0
    /\ file # NoFile /\ ncalls = 2

\* a step that is a call of record_search(success = false)
FailedSearchStep ==
    ret'.op = "record_search" /\ ~ret'.allowed /\ ncalls' # ncalls

\* C8: record_search(success = false) adds one to consecutive_failures and to
\* total_failures_today, and when the new consecutive_failures c is at least 3
\* sets blocked_until to now + min(300 * 2^(c-3), 3600).
C8_FailureBackoff ==
    [][FailedSearchStep
        => /\ state'.consecutive_failures = state.consecutive_failures + 1
           /\ state'.total_failures_today = state.total_failures_today + 1
           /\ state'.consecutive_failures >= 3
                => state'.blocked_until
                     = now + Min(300 * (2 ^ (state'.consecutive_failures - 3)), 3600)]_vars

C8_Witness ==
    /\ ret.op = "record_search" /\ ~ret.allowed
    /\ state.consecutive_failures = 7
    /\ state.blocked_until = now + 3600

\* C9 (as claimed): no operation of the RateLimiter decreases blocked_until.
C9_BlockedUntilMonotone ==
    [][state'.blocked_until >= state.blocked_until]_vars

\* C10: while blocked_until is later than the clock, can_search() answers
\* false and its reason gives the remaining seconds, whatever the counters.
C10_BlockedRefuses ==
    (ret.op = "can_search" /\ state.blocked_until > now)
        => /\ ~ret.allowed
           /\ ret.reason = "Temporarily blocked for "
                           \o ToString(state.blocked_until - now)
                           \o " seconds due to failures"

C10_Witness ==
    /\ ret.op = "can_search"
    /\ state.blocked_until > now
    /\ state.consecutive_failures = 0
    /\ state.daily_searches >= limits.searches_per_day

\* a step that is a call of can_search, can_view_profile or get_status, the
\* operations that begin with the rollover check: the only steps that neither
\* move the clock nor count as a recorded or resetting call
RolloverCheckStep == now' = now /\ ncalls' = ncalls

\* a step that is a call of record_search
RecordSearchStep == ret'.op = "record_search" /\ ncalls' # ncalls

NewDate == DateOf(now) # state.last_reset_date

NewHour == HourOf(now) # state.last_hour_reset

\* C11: whenever the time since last_search_time is less than
\* min(min_delay_between_searches * backoff_multiplier^consecutive_failures,
\* max_backoff), can_search() answers false.
C11_MinDelayRefuses ==
    (/\ ret.op = "can_search"
     /\ now - state.last_search_time
          < Min(limits.min_delay_between_searches
                  * (limits.backoff_multiplier ^ state.consecutive_failures),
                limits.max_backoff))
        => ~ret.allowed

C11_Witness ==
    /\ ret.op = "can_search"
    /\ state.consecutive_failures = 1
    /\ now - state.last_search_time = limits.min_delay_between_searches
    /\ ret.reason = "Please wait 45 seconds before next search"

\* C12 (as claimed): when a public operation returns and the write succeeds,
\* the persisted document equals the state in memory.
C12_PersistedAfterEveryOp ==
    [][now' = now => file' = state']_vars

\* C13 (as claimed): when neither the date nor the hour has changed since the
\* last rollover, can_search() and can_view_profile() leave the state as it was.
C13_PureReads ==
    [][(/\ ret'.op \in {"can_search", "can_view_profile"}
        /\ ~NewDate /\ ~NewHour)
          => state' = state]_vars

\* C14 (as claimed): a search recorded as the first call after the date (the
\* hour) has changed is counted in the new window: after it and a rollover
\* check, daily_searches (hourly_searches) is 1.
C14_RecordedInNewWindow ==
    [][RecordSearchStep
        => LET r == reset_if_needed(state', continuous_actions', now).state
           IN  /\ NewDate => r.daily_searches = 1
               /\ NewHour => r.hourly_searches = 1]_vars

\* the hour window of the clock value t
HourWindow(t) == t \div 3600

\* C15 (as claimed): an hourly counter does not decrease while the hour window
\* is unchanged, and is zero after the first rollover check made once the
\* clock has left the hour window of the actions it counts, whatever the time
\* elapsed.
C15_HourlyZeroedOnceLeft ==
    [][/\ state'.hourly_searches < state.hourly_searches => NewHour
       /\ state'.hourly_profiles < state.hourly_profiles => NewHour
       /\ (RolloverCheckStep
             /\ HourWindow(state.last_search_time) < HourWindow(now))
            => state'.hourly_searches = 0
       /\ (RolloverCheckStep
             /\ HourWindow(state.last_profile_time) < HourWindow(now))
            => state'.hourly_profiles = 0]_vars

\* C16: a rollover check made when last_reset_date differs from the current
\* date zeroes daily_searches, daily_profiles, daily_connections and
\* total_failures_today, takes one from consecutive_failures (not below 0),
\* writes the current date to last_reset_date, and leaves blocked_until,
\* last_search_time and last_profile_time as they were (and last_break_time
\* too, unless the call is a can_search that ends a break).
C16_DailyRollover ==
    [][(RolloverCheckStep /\ NewDate)
        => /\ state'.daily_searches = 0
           /\ state'.daily_profiles = 0
           /\ state'.daily_connections = 0
           /\ state'.total_failures_today = 0
           /\ state'.consecutive_failures
                = (IF state.consecutive_failures > 0
                   THEN state.consecutive_failures - 1 ELSE 0)
           /\ state'.last_reset_date = DateOf(now)
           /\ state'.blocked_until = state.blocked_until
           /\ state'.last_search_time = state.last_search_time
           /\ state'.last_profile_time = state.last_profile_time
           /\ ret'.op # "can_search"
                => state'.last_break_time = state.last_break_time]_vars

C16_Witness ==
    /\ ret.op = "can_view_profile"
    /\ state.last_reset_date = DateOf(StartTime) + 1
    /\ file.last_reset_date = DateOf(StartTime) + 1
    /\ state.consecutive_failures = 4
    /\ state.blocked_until > 0
    /\ state.last_search_time > 0
    /\ state.daily_searches = 0

\* C17 (as claimed): a rollover check made when last_reset_date differs from
\* the current date resets the state field continuous_searches to 0.
C17_ContinuousSearchesReset ==
    [][(RolloverCheckStep /\ NewDate) => state'.continuous_searches = 0]_vars

\* C18: in every reachable state, a second rollover check made at the same
\* clock value changes nothing of what the first one left.
C18_RolloverIdempotent ==
    LET r1 == reset_if_needed(state, continuous_actions, now)
        r2 == reset_if_needed(r1.state, r1.continuous_actions, now)
    IN  r2 = r1

C18_Witness ==
    /\ NewDate /\ NewHour
    /\ state.consecutive_failures >= 2
    /\ state.daily_searches > 0 /\ state.hourly_searches > 0
    /\ reset_if_needed(state, continuous_actions, now).state # state

\* C19: record_search(success = true) sets consecutive_failures to 0 and
\* leaves total_failures_today and blocked_until as they were.
C19_SuccessFrame ==
    [][(RecordSearchStep /\ ret'.allowed)
        => /\ state'.consecutive_failures = 0
           /\ state'.total_failures_today = state.total_failures_today
           /\ state'.blocked_until = state.blocked_until]_vars

C19_Witness ==
    /\ ret.op = "record_search" /\ ret.allowed
    /\ state.consecutive_failures = 0
    /\ state.total_failures_today > 0
    /\ state.blocked_until > now

\* C20: while total_failures_today is 10 or more can_search() answers false,
\* and total_failures_today goes down only when a date rollover zeroes it.
C20_FailureCeiling ==
    /\ []((ret.op = "can_search" /\ state.total_failures_today >= 10)
            => ~ret.allowed)
    /\ [][state'.total_failures_today < state.total_failures_today
            => /\ state'.total_failures_today = 0
               /\ state'.last_reset_date # state.last_reset_date]_vars

C20_Witness ==
    /\ ret.op = "can_search"
    /\ state.total_failures_today = 10
    /\ ret.reason = "Too many failures today. Please try again tomorrow"

-----------------------------------------------------------------------------
(* Breaks and emergency stop *)

\* a step that is a call of can_search
CanSearchStep == ret'.op = "can_search" /\ now' = now /\ ncalls' = ncalls

\* C21: a can_search() made while continuous_searches is at or over
\* max_continuous_searches answers true only if at least break_duration_min
\* seconds have passed since last_break_time, and can_search() takes
\* continuous_searches down (to 0) only in that case.
C21_BreakRequired ==
    [][CanSearchStep
        => /\ (/\ state.continuous_searches >= limits.max_continuous_searches
               /\ ret'.allowed)
                => now - state.last_break_time >= limits.break_duration_min
           /\ state'.continuous_searches # state.continuous_searches
                => /\ state.continuous_searches >= limits.max_continuous_searches
                   /\ now - state.last_break_time >= limits.break_duration_min
                   /\ state'.continuous_searches = 0]_vars

C21_Witness ==
    /\ ret.op = "can_search"
    /\ state.continuous_searches >= limits.max_continuous_searches
    /\ now - state.last_break_time >= limits.break_duration_min
    /\ now - state.last_break_time < limits.break_duration_max
    /\ ret.reason = "Break required. Please wait 500 seconds"

\* C22 (as claimed): after an emergency_stop() at time t, can_search() answers
\* false at every time before t + 3600, whatever was called in between.
C22_StopHoldsOneHour ==
    (/\ stopped_at >= 0
     /\ ret.op = "can_search"
     /\ now < stopped_at + 3600)
        => ~ret.allowed

\* C23 (as claimed): while blocked_until is in the future, can_view_profile()
\* answers false.
C23_BlockStopsProfiles ==
    (ret.op = "can_view_profile" /\ state.blocked_until > now)
        => ~ret.allowed

-----------------------------------------------------------------------------
(* get_delay, under SpecDelay *)

\* the clamped base delay of the call whose answer is in ret
ClampedBase ==
    IF ret.gauss < MinDelayOf(ret.action_type) THEN MinDelayOf(ret.action_type)
    ELSE IF ret.gauss > MaxDelayOf(ret.action_type) THEN MaxDelayOf(ret.action_type)
    ELSE ret.gauss

\* with failures the clamped base is multiplied by backoff_multiplier^c and
\* capped at max_backoff, the jitter is added, and the result is floored at
\* the minimum delay
BackoffApplied ==
    LET c      == state.consecutive_failures
        scaled == ClampedBase * (limits.backoff_multiplier ^ c)
        capped == IF scaled > limits.max_backoff THEN limits.max_backoff ELSE scaled
        sum    == capped + ret.jitter * ((ClampedBase * 2) \div 10)
    IN  ret.delay = (IF sum < MinDelayOf(ret.action_type)
                     THEN MinDelayOf(ret.action_type) ELSE sum)

\* C24 (as claimed): without failures the delay lies within [min_delay,
\* max_delay] for every draw; with c failures the clamped base is multiplied
\* by backoff_multiplier^c and capped at max_backoff; and the delay is never
\* below the minimum delay.
C24_DelayWithinMinMax ==
    ret.op = "get_delay"
        => /\ state.consecutive_failures = 0
                => /\ ret.delay >= MinDelayOf(ret.action_type)
                   /\ ret.delay <= MaxDelayOf(ret.action_type)
           /\ state.consecutive_failures > 0 => BackoffApplied
           /\ ret.delay >= MinDelayOf(ret.action_type)

\* C24 (amended): without failures the delay lies within [min_delay,
\* max_delay + 20% of max_delay] for every draw, since the jitter of up to 20% of
\* the clamped base is added after the clamp; with c failures the clamped base
\* is multiplied by backoff_multiplier^c and capped at max_backoff; and the
\* delay is never below the minimum delay.
C24_DelayWithinJitter ==
    ret.op = "get_delay"
        => /\ state.consecutive_failures = 0
                => /\ ret.delay >= MinDelayOf(ret.action_type)
                   /\ 10 * ret.delay <= 12 * MaxDelayOf(ret.action_type)
           /\ state.consecutive_failures > 0 => BackoffApplied
           /\ ret.delay >= MinDelayOf(ret.action_type)

C24_Witness ==
    /\ ret.op = "get_delay"
    /\ state.consecutive_failures = 0
    /\ ret.action_type = "search"
    /\ ret.delay = 216

-----------------------------------------------------------------------------
(* The ladder's last level, its pacing and its result counts, under SpecCtl *)

\* C25: level 5 fetches only if the intent has at least one location, with
\* the keyword "developer OR manager OR founder" and exactly the filters
\* geoIncluded and currentJobTitle = "true"; when it returns results, every
\* record carries ai_filter_needed = true and search_strategy = "ultra_broad".
C25_UltraBroad ==
    /\ \A i \in 1..Len(fetchLog) :
          fetchLog[i].level = 5
              => /\ Len(filters.intent.locations) >= 1
                 /\ fetchLog[i].filters.keywords = "developer OR manager OR founder"
                 /\ DOMAIN fetchLog[i].filters.native_filters
                        = {"geoIncluded", "currentJobTitle"}
                 /\ fetchLog[i].filters.native_filters["currentJobTitle"] = "true"
    /\ (pc = "Success" /\ Last(fetchLog).level = 5)
          => \A j \in 1..Len(results) :
                /\ HasAiTag(results[j])
                /\ "search_strategy" \in DOMAIN results[j]
                /\ results[j].search_strategy = "ultra_broad"

C25_Witness ==
    /\ pc = "Success"
    /\ Last(fetchLog).level = 5
    /\ Len(results) > 0
    /\ results[1].search_strategy = "ultra_broad"

\* C26: between two consecutive fetches of one call more time elapses than
\* the limiter's minimum delay between searches.
C26_InterLevelDelay ==
    \A i \in 2..Len(fetchLog) :
        fetchLog[i].at - fetchLog[i - 1].at > limits.min_delay_between_searches

\* the result-count multiplier of each level
multiplier == <<1, 1, 1, 2, 3>>

\* C27: the extractor is given max_results times 1, 1, 1, 2, 3 at levels
\* 1..5, and a successful call returns at most that many records.
C27_ResultCounts ==
    /\ \A i \in 1..Len(fetchLog) :
          fetchLog[i].max_count = max_results * multiplier[fetchLog[i].level]
    /\ pc = "Success"
          => Len(results) <= max_results * multiplier[Last(fetchLog).level]

C27_Witness ==
    /\ pc = "Success"
    /\ Last(fetchLog).level = 4
    /\ Len(results) = 2 * max_results
    /\ Elements(Last(fetchLog).page) > Len(results)

-----------------------------------------------------------------------------
(* Failing writes, under SpecRLW *)

\* C28: when the write of config_file fails, record_search,
\* record_profile_view, reset_session, emergency_stop and can_search do not
\* raise, the in-memory state is updated all the same, and can_search
\* answers from the in-memory state: it refuses on an in-memory quota or
\* block which the document does not show.
C28_WriteFailureNonFatal ==
    [][/\ ret'.op # "raised"
       /\ (\E s \in BOOLEAN : RecordSearch(s, FALSE))
            => /\ state'.daily_searches = state.daily_searches + 1
               /\ state'.last_search_time = now
               /\ file' = file
       /\ (\E s \in BOOLEAN : RecordProfileView(s, FALSE))
            => /\ state'.daily_profiles = state.daily_profiles + 1
               /\ state'.last_profile_time = now
               /\ file' = file
       /\ ResetSession(FALSE)
            => /\ state'.continuous_searches = 0
               /\ state'.last_break_time = now
               /\ file' = file
       /\ EmergencyStop(FALSE)
            => /\ state'.blocked_until = now + 3600
               /\ state'.consecutive_failures = 5
               /\ file' = file
       /\ CanSearchStep
            => /\ (~NewDate /\ state.daily_searches >= limits.searches_per_day)
                    => ~ret'.allowed
               /\ state.blocked_until > now => ~ret'.allowed
               /\ ret'.allowed
                    => /\ state'.daily_searches < limits.searches_per_day
                       /\ state'.blocked_until <= now]_vars

C28_Witness ==
    /\ ret.op = "can_search"
    /\ ~ret.allowed
    /\ ret.reason = DailyReason
    /\ state.daily_searches = limits.searches_per_day
    /\ file.daily_searches < limits.searches_per_day

-----------------------------------------------------------------------------
(* Keywords and native filters, under SpecParse *)

\* the first two of the names, joined with OR
FirstTwo(names) ==
    IF Len(names) = 1 THEN names[1] ELSE names[1] \o " OR " \o names[2]

\* the first two roles, each quoted, joined with OR, in parentheses
RoleClause(roles) ==
    IF Len(roles) = 1 THEN "(\"" \o roles[1] \o "\")"
    ELSE "(\"" \o roles[1] \o "\" OR \"" \o roles[2] \o "\")"

\* the words of the raw text without their non-alphanumeric characters, of
\* more than 2 characters and not stop words
Tokens(raw) ==
    LET ws    == Split(raw)
        clean == [j \in 1..Len(ws) |-> SelectSeq(ws[j], IsAlnum)]
        kept(w) == Len(w) > 2 /\ Str(w) \notin stop_words
        strs  == SelectSeq(clean, kept)
    IN  [j \in 1..Len(strs) |-> Str(strs[j])]

\* C29: the keywords hold at most 2 roles and 2 skills: with roles, they
\* start with the first 2 roles quoted, OR-joined, in parentheses; the first
\* 2 skills, OR-joined, follow as "AND (...)" after a role clause and stand
\* alone without one; with neither, at most 2 tokens of the raw text are
\* OR-joined.
C29_KeywordsBounded ==
    pc = "Parsed"
        => LET roles  == filters.intent.roles
               skills == filters.intent.skills
               tokens == Tokens(filters.intent.keywords_raw)
           IN  /\ (roles # <<>> /\ skills = <<>>)
                    => filters.keywords = RoleClause(roles)
               /\ (roles # <<>> /\ skills # <<>>)
                    => filters.keywords
                         = RoleClause(roles) \o " AND (" \o FirstTwo(skills) \o ")"
               /\ (roles = <<>> /\ skills # <<>>)
                    => filters.keywords = FirstTwo(skills)
               /\ (roles = <<>> /\ skills = <<>>)
                    => filters.keywords
                         = (IF tokens = <<>> THEN "" ELSE FirstTwo(tokens))

C29_Witness ==
    /\ pc = "Parsed"
    /\ Len(filters.intent.roles) = 3
    /\ Len(filters.intent.skills) = 3
    /\ filters.keywords
         = "(\"javascript developer\" OR \"cto\") AND (JavaScript OR Python)"

\* the roles for which the function filter is emitted
technical_roles == {"javascript developer", "developer"}

\* C30: currentJobTitle = "true" is always emitted; geoIncluded iff there is
\* a location, seniorityIncluded iff there is a seniority, companySize iff
\* there is a size with an entry in the table, functionIncluded =
\* "engineering" iff there is a technical role; and no value is empty.
C30_NativeFilters ==
    pc = "Parsed"
        => LET intent == filters.intent
               nf     == filters.native_filters
               has(k) == k \in DOMAIN nf
           IN  /\ has("currentJobTitle")
               /\ nf["currentJobTitle"] = "true"
               /\ has("geoIncluded") <=> Len(intent.locations) > 0
               /\ has("seniorityIncluded") <=> Len(intent.seniority) > 0
               /\ has("companySize")
                    <=> /\ "size" \in DOMAIN intent.company_criteria
                        /\ intent.company_criteria["size"]
                             \in {"1-50", "1-100", "51-200", "201-500"}
               /\ has("functionIncluded")
                    <=> \E j \in 1..Len(intent.roles) :
                            intent.roles[j] \in technical_roles
               /\ has("functionIncluded") => nf["functionIncluded"] = "engineering"
               /\ DOMAIN nf \subseteq {"currentJobTitle", "geoIncluded",
                                       "seniorityIncluded", "companySize",
                                       "functionIncluded"}
               /\ \A k \in DOMAIN nf : nf[k] \notin {"", "N/A"}

C30_Witness ==
    /\ pc = "Parsed"
    /\ filters.intent.roles = <<"manager">>
    /\ filters.intent.locations = <<"Madrid", "Spain">>
    /\ DOMAIN filters.native_filters = {"geoIncluded", "companySize", "currentJobTitle"}
    /\ filters.native_filters["companySize"] = "B"

-----------------------------------------------------------------------------
(* The OR-broadening level, under SpecCtl *)

\* up to three names joined with OR
FirstThree(names) ==
    IF Len(names) = 1 THEN names[1]
    ELSE IF Len(names) = 2 THEN names[1] \o " OR " \o names[2]
    ELSE names[1] \o " OR " \o names[2] \o " OR " \o names[3]

\* the groups that apply to the intent, in the order roles, skills,
\* seniority, funding
OrGroups(intent) ==
    (IF Len(intent.roles) > 0
     THEN <<"(" \o FirstThree([j \in 1..Len(intent.roles) |->
                                  "\"" \o intent.roles[j] \o "\""]) \o ")">>
     ELSE <<>>)
    \o (IF Len(intent.skills) > 0
        THEN <<"(" \o FirstThree(intent.skills) \o ")">> ELSE <<>>)
    \o (IF Len(intent.seniority) > 0
        THEN <<"(founder OR CEO OR CTO)">> ELSE <<>>)
    \o (IF "funding" \in DOMAIN intent.company_criteria
        THEN <<"(startup OR funded OR investment)">> ELSE <<>>)

\* C31: the level-4 keyword is made of at most 3 groups in parentheses (up to
\* 3 quoted roles, up to 3 skills, 3 seniority terms, the funding terms),
\* joined by OR only, or is "developer OR engineer OR founder OR manager" when
\* no group applies; the level-4 filters are geoIncluded, if there is a
\* location, and currentJobTitle = "true", and nothing else.
C31_OrBroadening ==
    \A i \in 1..Len(fetchLog) :
        fetchLog[i].level = 4
            => LET intent == filters.intent
                   groups == OrGroups(intent)
                   kw     == fetchLog[i].filters.keywords
                   nf     == fetchLog[i].filters.native_filters
               IN  /\ groups = <<>>
                        => kw = "developer OR engineer OR founder OR manager"
                   /\ groups # <<>> => kw = FirstThree(groups)
                   /\ "currentJobTitle" \in DOMAIN nf
                   /\ nf["currentJobTitle"] = "true"
                   /\ "geoIncluded" \in DOMAIN nf <=> Len(intent.locations) > 0
                   /\ DOMAIN nf \subseteq {"geoIncluded", "currentJobTitle"}

\* four groups apply and the fourth is left out
C31_Witness ==
    /\ Len(fetchLog) > 0
    /\ Last(fetchLog).level = 4
    /\ Len(OrGroups(filters.intent)) = 4
    /\ Last(fetchLog).filters.keywords
         = "(\"ceo\") OR (JavaScript OR Python) OR (founder OR CEO OR CTO)"
    /\ DOMAIN Last(fetchLog).filters.native_filters
         = {"geoIncluded", "currentJobTitle"}

-----------------------------------------------------------------------------
(* search() and get_search_results, under SpecSearch *)

NoLinkedInResults ==
    returned.kind = "none" \/ (returned.kind = "list" /\ Len(returned.items) = 0)

C38_SearchReturnsList ==
    pc \in {"Returned", "Answered"}
        => /\ returned.kind = "list"
           /\ driver = "None"
           /\ logged_in = FALSE

\* a search that succeeded on the site: the session is released on return
C38_Witness ==
    /\ pc = "Returned"
    /\ fetchLog # <<>>
    /\ returned.kind = "list"
    /\ Len(returned.items) > 0
    /\ driver = "None"
    /\ ~logged_in

-----------------------------------------------------------------------------
(* The break after a run of searches from the default state, under SpecRLC *)

\* C33: after the search that brings continuous_searches to
\* max_continuous_searches, can_search allows no search until
\* break_duration_min seconds have passed since that search.
C33_ForcedBreak ==
    [][(/\ CanSearchStep
        /\ state.continuous_searches >= limits.max_continuous_searches
        /\ ret'.allowed)
          => now - state.last_search_time >= limits.break_duration_min]_vars

-----------------------------------------------------------------------------
(* load_state, under SpecLoad *)

ConstructStep == ret'.op = "load_state"

Loadable(f) ==
    /\ f \notin {NoFile, Unreadable, NotJson}
    /\ "daily_searches" \in DOMAIN f

StartsFromDefault(st, t) ==
    /\ DOMAIN st = DOMAIN DefaultState(t)
    /\ \A k \in DOMAIN st \ {"last_reset_date", "last_hour_reset"} : st[k] = 0
    /\ st.last_reset_date = DateOf(t)
    /\ st.last_hour_reset = HourOf(t)

\* C36: constructing a limiter over a missing, unreadable, non-JSON or
\* daily_searches-less document yields the default state (counters and
\* blocked_until 0, reset date and hour those of the present instant); over
\* any other document it yields that document unchanged.
C36_LoadState ==
    [][ConstructStep =>
          IF Loadable(file') THEN state' = file'
          ELSE StartsFromDefault(state', now)]_vars

C36_Witness ==
    /\ ret.op = "load_state"
    /\ file \in PartialDocs(now)
    /\ state = DefaultState(now)
    /\ now > StartTime

-----------------------------------------------------------------------------
(* Failed profile views, under SpecRLP (no search fails) *)

FailedProfileViewStep == ret'.op = "record_profile_view" /\ ~ret'.allowed

FailedViewCountsOnly ==
    FailedProfileViewStep
      => /\ state'.total_failures_today = state.total_failures_today + 1
         /\ state'.consecutive_failures = state.consecutive_failures
         /\ state'.blocked_until = state.blocked_until

\* a can_search made on the day of the last reset with ten or more failures
\* counted since
CeilingReachedStep ==
    /\ CanSearchStep
    /\ state.total_failures_today >= 10
    /\ state.last_reset_date = DateOf(now)

TooManyFailures == "Too many failures today. Please try again tomorrow"

\* what an earlier check of can_search answers
EarlierRefusal(r) ==
    \/ \E n \in 1..3600 :
          r = "Temporarily blocked for " \o ToString(n)
                \o " seconds due to failures"
    \/ r = "Daily search limit reached (15 searches)"
    \/ r = "Hourly search limit reached (3 searches)"
    \/ \E n \in 1..900 :
          r = "Break required. Please wait " \o ToString(n) \o " seconds"
    \/ \E n \in 1..3600 :
          r = "Please wait " \o ToString(n) \o " seconds before next search"

\* (C37 as stated) a failed profile view adds one to total_failures_today and
\* leaves consecutive_failures and blocked_until alone; with ten of them in a
\* day and no failed search, every can_search of that day refuses with the
\* too-many-failures reason.
C37_AsStated ==
    [][/\ FailedViewCountsOnly
       /\ CeilingReachedStep
            => ~ret'.allowed /\ ret'.reason = TooManyFailures]_vars

\* C37: a failed profile view adds one to total_failures_today and leaves
\* consecutive_failures and blocked_until alone; with ten of them in a day and
\* no failed search, every can_search of that day refuses, with the
\* too-many-failures reason unless one of its earlier checks (block, daily
\* limit, hourly limit, break, minimum delay) refuses first.
C37_FailedProfileViews ==
    [][/\ FailedViewCountsOnly
       /\ CeilingReachedStep
            => /\ ~ret'.allowed
               /\ ret'.reason = TooManyFailures \/ EarlierRefusal(ret'.reason)]_vars

C37_Witness ==
    /\ ret.op = "can_search"
    /\ state.total_failures_today = 10
    /\ state.consecutive_failures = 0
    /\ state.blocked_until = 0
    /\ state.daily_profiles = 10
    /\ state.last_reset_date = DateOf(now)
    /\ ret.reason = TooManyFailures

-----------------------------------------------------------------------------
(* A caller that records only after an affirmative can_search, under SpecRLS *)

\* C34: when every record_search directly follows a can_search that answered
\* true, daily_searches never exceeds searches_per_day and hourly_searches
\* never exceeds searches_per_hour, whatever hour and date changes occur.
C34_WithinLimits ==
    /\ state.daily_searches <= limits.searches_per_day
    /\ state.hourly_searches <= limits.searches_per_hour

C34_Witness ==
    /\ ret.op = "record_search"
    /\ state.daily_searches = limits.searches_per_day
    /\ state.hourly_searches = limits.searches_per_hour
    /\ now > StartTime

-----------------------------------------------------------------------------
(* Two instances on one config_file, under SpecRL2 *)

\* record_search calls of the day: those behind the document the instances
\* were constructed on and those either instance has made since
RecordedToday == SharedDoc(StartTime).daily_searches + ncalls

SameDay ==
    /\ DateOf(now) = DateOf(StartTime)
    /\ SharedDoc(StartTime).last_reset_date = DateOf(StartTime)

\* C35: with two instances on one file whose calls interleave, the persisted
\* daily_searches equals the number of record_search calls both have made
\* since the last daily reset, and that number never exceeds searches_per_day.
C35_NoLostSearch ==
    SameDay => /\ file.daily_searches = RecordedToday
               /\ RecordedToday <= limits.searches_per_day

====
